---- MODULE Spec2Model ----
(***************************************************************************)
(* Request pipeline of the NestJS infrastructure template: the exception   *)
(* taxonomy (BaseExceptionDto and its variants), the masking logger, the   *)
(* logging interceptor and the global exception filter.                    *)
(*                                                                         *)
(* Text is modelled as a sequence of one-character strings, so that        *)
(* toLowerCase, replace, trim, join and includes are computed as the code  *)
(* computes them.  A JavaScript value is a record tagged by its type.      *)
(***************************************************************************)
EXTENDS Integers, Sequences, FiniteSets, TLC

VARIABLES
    clock,          \* Date.now() / new Date(): advances as steps run
    dtos,           \* SpecDto: the records built by CreateBaseException, by slot
    sensitiveFields,\* CustomLoggerService.sensitiveFields (config.sensitiveFields)
    excludePaths,   \* LoggerInterceptor.excludePaths (config.excludePaths)
    requests,       \* per request: the express request object and its progress
    log,            \* the calls made on the winston logger, in order
    responses,      \* per request: the responses written, in order
    uuids,          \* number of randomUUID() values drawn so far
    exceptions,     \* the taxonomy exceptions constructed so far, in order
    nestLog,        \* the calls made on Nest's Logger by exception constructors
    heap,           \* the objects and arrays maskSensitiveData reads and writes
    maskCall,       \* SpecMask: the argument and the results of maskSensitiveData
    environ,        \* the environment variables the process is started with
    envFile,        \* the entries of the .env file in the working directory
    boot,           \* per startup: process.env, the env object and bootstrap()'s progress
    health          \* HealthController: its env flags, injected services and answers

vars == <<clock, dtos, sensitiveFields, excludePaths, requests, log, responses, uuids,
          exceptions, nestLog, heap, maskCall, environ, envFile, boot, health>>

startupVars == <<environ, envFile, boot, health>>

pipelineVars == <<sensitiveFields, excludePaths, requests, log, responses, uuids>>

----------------------------------------------------------------------------
(* Bounds of the model *)

\* longest columns/fields array handed to an exception constructor
MaxColumns == 2

\* number of requests the pipeline handles, concurrently
MaxRequests == 2

\* number of exceptions raising sites construct
MaxExceptions == 2

\* nesting depth of the values handed to maskSensitiveData
MaxDepth == 2

\* startups of the process, one after the other, with the same environment
MaxStartups == 2

----------------------------------------------------------------------------
(* Text *)

UpperCaseLetters == <<"A","B","C","D","E","F","G","H","I","J","K","L","M","N","O","P","Q","R","S","T","U","V","W","X","Y","Z">>

LowerCaseLetters == <<"a","b","c","d","e","f","g","h","i","j","k","l","m","n","o","p","q","r","s","t","u","v","w","x","y","z">>

Digits == <<"0","1","2","3","4","5","6","7","8","9">>

WhiteSpace == {" ", "\t", "\n"}

\* the lower-case letter of each upper-case letter
lowerCaseOf ==
    [c \in {UpperCaseLetters[j] : j \in 1..Len(UpperCaseLetters)} |->
        LowerCaseLetters[CHOOSE j \in 1..Len(UpperCaseLetters) : UpperCaseLetters[j] = c]]

\* String.prototype.toLowerCase
toLowerCase(s) ==
    [i \in 1..Len(s) |-> IF s[i] \in DOMAIN lowerCaseOf THEN lowerCaseOf[s[i]] ELSE s[i]]

\* String.prototype.replace(/_/g, ' ')
replaceUnderscores(s) == [i \in 1..Len(s) |-> IF s[i] = "_" THEN " " ELSE s[i]]

\* String.prototype.includes
includes(s, sub) ==
    \E i \in 0..(Len(s) - Len(sub)) : \A j \in 1..Len(sub) : s[i + j] = sub[j]

\* String.prototype.trim
RECURSIVE trimStart(_)
trimStart(s) == IF s # <<>> /\ Head(s) \in WhiteSpace THEN trimStart(Tail(s)) ELSE s

RECURSIVE trimEnd(_)
trimEnd(s) ==
    IF s # <<>> /\ s[Len(s)] \in WhiteSpace THEN trimEnd(SubSeq(s, 1, Len(s) - 1)) ELSE s

trim(s) == trimEnd(trimStart(s))

\* Array.prototype.join(sep)
RECURSIVE join(_, _)
join(items, sep) ==
    IF items = <<>> THEN <<>>
    ELSE IF Len(items) = 1 THEN items[1]
    ELSE items[1] \o sep \o join(Tail(items), sep)

\* Number.prototype.toString of a natural number (also `${n}` in a template)
RECURSIVE numberToString(_)
numberToString(n) ==
    IF n < Len(Digits) THEN <<Digits[n + 1]>>
    ELSE numberToString(n \div Len(Digits)) \o <<Digits[(n % Len(Digits)) + 1]>>

\* String.prototype.split(sep) for a one-character separator
RECURSIVE split(_, _)
split(s, sep) ==
    IF \A i \in 1..Len(s) : s[i] # sep THEN <<s>>
    ELSE LET at == CHOOSE i \in 1..Len(s) : s[i] = sep /\ \A j \in 1..(i - 1) : s[j] # sep
         IN  <<SubSeq(s, 1, at - 1)>> \o split(SubSeq(s, at + 1, Len(s)), sep)

\* String.prototype.replace(pattern, replacement) for a text pattern: the first
\* occurrence only
replace(s, pattern, replacement) ==
    IF ~includes(s, pattern) THEN s
    ELSE LET at == CHOOSE i \in 0..(Len(s) - Len(pattern)) :
                      /\ \A j \in 1..Len(pattern) : s[i + j] = pattern[j]
                      /\ \A k \in 0..(i - 1) : \E j \in 1..Len(pattern) : s[k + j] # pattern[j]
         IN  SubSeq(s, 1, at) \o replacement \o SubSeq(s, at + Len(pattern) + 1, Len(s))

\* the value of a decimal digit
digitValue(c) == (CHOOSE j \in 1..Len(Digits) : Digits[j] = c) - 1

\* the longest prefix of s made of digits
RECURSIVE leadingDigits(_)
leadingDigits(s) ==
    IF s # <<>> /\ \E j \in 1..Len(Digits) : Digits[j] = Head(s)
    THEN <<Head(s)>> \o leadingDigits(Tail(s))
    ELSE <<>>

RECURSIVE digitsToNumber(_)
digitsToNumber(ds) ==
    IF ds = <<>> THEN 0
    ELSE digitsToNumber(SubSeq(ds, 1, Len(ds) - 1)) * Len(Digits) + digitValue(ds[Len(ds)])

\* all sequences over S of length at most n
RECURSIVE SeqsUpTo(_, _)
SeqsUpTo(S, n) ==
    IF n = 0 THEN {<<>>}
    ELSE LET shorter == SeqsUpTo(S, n - 1)
         IN  shorter \cup {Append(s, x) : s \in {t \in shorter : Len(t) = n - 1}, x \in S}

----------------------------------------------------------------------------
(* JavaScript values *)

Str(s) == [t |-> "string", v |-> s]
Num(n) == [t |-> "number", v |-> n]
Null == [t |-> "null"]
Undefined == [t |-> "undefined"]
Arr(items) == [t |-> "array", v |-> items]
Obj(props) == [t |-> "object", v |-> props]
DateOf(ms) == [t |-> "date", v |-> ms]

NaN == [t |-> "number", v |-> "NaN"]

\* parseInt(s, 10): leading white space is skipped, then an optional sign and
\* the digits up to the first other character; NaN when there is no digit
parseInt(s) ==
    LET body == trimStart(s)
        signed == body # <<>> /\ Head(body) \in {"+", "-"}
        ds == leadingDigits(IF signed THEN Tail(body) ELSE body)
    IN  IF ds = <<>> THEN NaN
        ELSE IF signed /\ Head(body) = "-" THEN Num(0 - digitsToNumber(ds))
        ELSE Num(digitsToNumber(ds))

\* the truthiness of a text or undefined value: '' and undefined are falsy
truthy(a) == a.t = "string" /\ a.v # <<>>

\* a || b for a text or undefined a and a text b: b when a is undefined or ''
orElse(a, b) == IF truthy(a) THEN a.v ELSE b

\* x === 'true'
isTrue(x) == x = Str(<<"t","r","u","e">>)

\* typeof x === 'object'
typeofObject(x) == x.t \in {"null", "array", "object", "date"}

\* own enumerable string keys of an object (a Date has none)
ObjectKeys(x) == IF x.t = "object" THEN DOMAIN x.v ELSE {}

\* whether x has the own key k, and its value
HasKey(x, k) == x.t = "object" /\ k \in DOMAIN x.v
Get(x, k) == IF HasKey(x, k) THEN x.v[k] ELSE Undefined

----------------------------------------------------------------------------
(* Masking logger: CustomLoggerService *)

MASKED == <<"*","*","*","M","A","S","K","E","D","*","*","*">>

\* a test that compares the key with the fields as they are written
isSensitiveKey_CaseSensitive(lowerFields, key) ==
    \E i \in 1..Len(lowerFields) : includes(key, lowerFields[i])

\* this.sensitiveFields.some((field) => key.toLowerCase().includes(field.toLowerCase())),
\* given the fields in lower case
isSensitiveKey(lowerFields, key) ==
    LET lowerKey == toLowerCase(key)
    IN  \E i \in 1..Len(lowerFields) : includes(lowerKey, lowerFields[i])

\* { ...data }: the own enumerable properties of data (a Date has none)
spread(data) == IF data.t = "object" THEN data.v ELSE <<>>

\* the recursion of maskSensitiveData, given the fields in lower case
RECURSIVE maskWith(_, _)
maskWith(lowerFields, data) ==
    IF ~typeofObject(data) \/ data.t = "null" THEN data
    ELSE IF data.t = "array"
    THEN Arr([i \in 1..Len(data.v) |-> maskWith(lowerFields, data.v[i])])
    ELSE LET masked == spread(data)
         IN  Obj([key \in DOMAIN masked |->
                   IF isSensitiveKey(lowerFields, key) THEN Str(MASKED)
                   ELSE IF typeofObject(masked[key]) /\ masked[key].t # "null"
                        THEN maskWith(lowerFields, masked[key])
                        ELSE masked[key]])

\* CustomLoggerService.maskSensitiveData, with this.sensitiveFields as `fields`
maskSensitiveData(fields, data) ==
    maskWith([i \in 1..Len(fields) |-> toLowerCase(fields[i])], data)

----------------------------------------------------------------------------
(* maskSensitiveData on the heap: objects and arrays are cells that values
   refer to, so that a write through one reference is seen through every
   other reference to the same cell *)

\* a reference to the cell at address a
Ref(a) == [t |-> "ref", a |-> a]

\* the cells: a plain object (its keys in insertion order and their values),
\* an array (its items) and a Date (no own enumerable property)
ObjectCell(keys, vals) == [kind |-> "object", keys |-> keys, vals |-> vals, ms |-> 0]
ArrayCell(items) == [kind |-> "array", keys |-> <<>>, vals |-> items, ms |-> 0]
DateCell(ms) == [kind |-> "date", keys |-> <<>>, vals |-> <<>>, ms |-> ms]

\* the keys of an object literal, in the order they are written
RECURSIVE keysInOrder(_)
keysInOrder(S) ==
    IF S = {} THEN <<>>
    ELSE LET k == CHOOSE key \in S : TRUE
         IN  <<k>> \o keysInOrder(S \ {k})

\* evaluating the literal of a value allocates its objects and arrays:
\* the heap afterwards and the value (a scalar or a reference)
RECURSIVE store(_, _)
RECURSIVE storeAll(_, _)
store(h, v) ==
    IF v.t = "array"
    THEN LET r == storeAll(h, v.v)
         IN  [heap |-> Append(r.heap, ArrayCell(r.values)), value |-> Ref(Len(r.heap) + 1)]
    ELSE IF v.t = "object"
    THEN LET keys == keysInOrder(DOMAIN v.v)
             r == storeAll(h, [i \in 1..Len(keys) |-> v.v[keys[i]]])
         IN  [heap |-> Append(r.heap, ObjectCell(keys, r.values)),
              value |-> Ref(Len(r.heap) + 1)]
    ELSE IF v.t = "date"
    THEN [heap |-> Append(h, DateCell(v.v)), value |-> Ref(Len(h) + 1)]
    ELSE [heap |-> h, value |-> v]

storeAll(h, items) ==
    IF Len(items) = 0 THEN [heap |-> h, values |-> <<>>]
    ELSE LET front == storeAll(h, SubSeq(items, 1, Len(items) - 1))
             last == store(front.heap, items[Len(items)])
         IN  [heap |-> last.heap, values |-> Append(front.values, last.value)]

\* the value a scalar or reference stands for, read from the heap
RECURSIVE load(_, _)
load(h, v) ==
    IF v.t # "ref" THEN v
    ELSE LET cell == h[v.a]
         IN  IF cell.kind = "array"
             THEN Arr([i \in 1..Len(cell.vals) |-> load(h, cell.vals[i])])
             ELSE IF cell.kind = "date" THEN DateOf(cell.ms)
             ELSE Obj([key \in {cell.keys[i] : i \in 1..Len(cell.keys)} |->
                        load(h, cell.vals[CHOOSE i \in 1..Len(cell.keys) : cell.keys[i] = key])])

\* a masking that writes into its argument: const masked = data
spreadCell_Alias(h, data) == [heap |-> h, value |-> data]

\* const masked = { ...data }: a new object with data's own enumerable properties
spreadCell(h, data) ==
    LET cell == h[data.a]
        copy == IF cell.kind = "object" THEN ObjectCell(cell.keys, cell.vals)
                ELSE ObjectCell(<<>>, <<>>)
    IN  [heap |-> Append(h, copy), value |-> Ref(Len(h) + 1)]

\* a redaction that appends the marker to a text it overwrites
redactedValue_Appended(old) == IF old.t = "string" THEN Str(old.v \o MASKED) ELSE Str(MASKED)

\* masked[key] = '***MASKED***': the value written over the old one
redactedValue(old) == Str(MASKED)

\* maskSensitiveData(data), the fields in lower case: the heap afterwards and
\* the value returned
RECURSIVE maskHeap(_, _, _)
RECURSIVE maskItems(_, _, _)
RECURSIVE maskKeys(_, _, _, _)
maskHeap(lowerFields, h, data) ==
    IF data.t # "ref" THEN [heap |-> h, value |-> data]
    ELSE IF h[data.a].kind = "array"
    THEN LET r == maskItems(lowerFields, h, h[data.a].vals)
         IN  [heap |-> Append(r.heap, ArrayCell(r.values)),
              value |-> Ref(Len(r.heap) + 1)]
    ELSE LET masked == spreadCell(h, data)
         IN  maskKeys(lowerFields, masked.heap, masked.value, 1)

\* data.map((item) => this.maskSensitiveData(item)): the items masked in order
maskItems(lowerFields, h, items) ==
    IF Len(items) = 0 THEN [heap |-> h, values |-> <<>>]
    ELSE LET front == maskItems(lowerFields, h, SubSeq(items, 1, Len(items) - 1))
             last == maskHeap(lowerFields, front.heap, items[Len(items)])
         IN  [heap |-> last.heap, values |-> Append(front.values, last.value)]

\* for (const key of Object.keys(masked)) { ... } from the n-th key on; return masked
maskKeys(lowerFields, h, masked, n) ==
    IF n > Len(h[masked.a].keys) THEN [heap |-> h, value |-> masked]
    ELSE IF isSensitiveKey(lowerFields, h[masked.a].keys[n])
    THEN maskKeys(lowerFields, [h EXCEPT ![masked.a].vals[n] = redactedValue(@)], masked, n + 1)
    ELSE IF h[masked.a].vals[n].t = "ref"
    THEN LET r == maskHeap(lowerFields, h, h[masked.a].vals[n])
         IN  maskKeys(lowerFields, [r.heap EXCEPT ![masked.a].vals[n] = r.value],
                      masked, n + 1)
    ELSE maskKeys(lowerFields, h, masked, n + 1)

----------------------------------------------------------------------------
(* Exception taxonomy *)

BAD_REQUEST == <<"B","A","D","_","R","E","Q","U","E","S","T">>
UNAUTHORIZED == <<"U","N","A","U","T","H","O","R","I","Z","E","D">>
FORBIDDEN == <<"F","O","R","B","I","D","D","E","N">>
NOT_FOUND == <<"N","O","T","_","F","O","U","N","D">>
INTERNAL_SERVER_ERROR == <<"I","N","T","E","R","N","A","L","_","S","E","R","V","E","R","_","E","R","R","O","R">>
SERVICE_UNAVAILABLE == <<"S","E","R","V","I","C","E","_","U","N","A","V","A","I","L","A","B","L","E">>
VALIDATION == <<"V","A","L","I","D","A","T","I","O","N">>
UNIQUE_VIOLATION == <<"U","N","I","Q","U","E","_","V","I","O","L","A","T","I","O","N">>

\* the HttpStatus enum of @nestjs/common as a JavaScript object, in Object.keys
\* order: the reverse mappings (integer keys, ascending), then the names
HttpStatus ==
    << [key |-> numberToString(400), value |-> Str(BAD_REQUEST)],
       [key |-> numberToString(401), value |-> Str(UNAUTHORIZED)],
       [key |-> numberToString(403), value |-> Str(FORBIDDEN)],
       [key |-> numberToString(404), value |-> Str(NOT_FOUND)],
       [key |-> numberToString(500), value |-> Str(INTERNAL_SERVER_ERROR)],
       [key |-> numberToString(503), value |-> Str(SERVICE_UNAVAILABLE)],
       [key |-> BAD_REQUEST, value |-> Num(400)],
       [key |-> UNAUTHORIZED, value |-> Num(401)],
       [key |-> FORBIDDEN, value |-> Num(403)],
       [key |-> NOT_FOUND, value |-> Num(404)],
       [key |-> INTERNAL_SERVER_ERROR, value |-> Num(500)],
       [key |-> SERVICE_UNAVAILABLE, value |-> Num(503)] >>

\* the values of ExceptionTypeEnum the model raises
ExceptionTypeEnum == {VALIDATION, UNIQUE_VIOLATION, NOT_FOUND, UNAUTHORIZED, FORBIDDEN, INTERNAL_SERVER_ERROR}

\* keys.find((k) => enumObj[k] === value): the first key holding value, or undefined
GetEnumByValue(value, enumObj) ==
    IF \E i \in 1..Len(enumObj) : enumObj[i].value = value
    THEN Str(enumObj[CHOOSE i \in 1..Len(enumObj) :
                 /\ enumObj[i].value = value
                 /\ \A j \in 1..(i - 1) : enumObj[j].value # value].key)
    ELSE Undefined

k_status == <<"s","t","a","t","u","s">>
k_message == <<"m","e","s","s","a","g","e">>
k_code == <<"c","o","d","e">>
k_target == <<"t","a","r","g","e","t">>
k_timestamp == <<"t","i","m","e","s","t","a","m","p">>
k_type == <<"t","y","p","e">>
k_detail == <<"d","e","t","a","i","l">>

UNKNOWN == <<"U","N","K","N","O","W","N">>

\* a filter that also drops an entry equal to an earlier one
RECURSIVE filterNonBlank_Distinct(_)
filterNonBlank_Distinct(columns) ==
    IF columns = <<>> THEN <<>>
    ELSE LET rest == filterNonBlank_Distinct(SubSeq(columns, 1, Len(columns) - 1))
             last == columns[Len(columns)]
         IN  IF trim(last) = <<>> \/ \E i \in 1..Len(rest) : rest[i] = last
             THEN rest ELSE Append(rest, last)

\* columns.filter((col) => col.trim() !== '')
RECURSIVE filterNonBlank(_)
filterNonBlank(columns) ==
    IF columns = <<>> THEN <<>>
    ELSE (IF trim(Head(columns)) # <<>> THEN <<Head(columns)>> ELSE <<>>)
         \o filterNonBlank(Tail(columns))

\* a constructor that names the error after the kind (type) instead of the status
CreateBaseException_KindNamed(columns, status, type, detail, now) ==
    LET found == GetEnumByValue(Num(status), HttpStatus)
        code == IF found.t = "string" /\ found.v # <<>> THEN found.v ELSE UNKNOWN
        target == filterNonBlank(columns)
        errorName == toLowerCase(replaceUnderscores(type))
        message == IF Len(target) > 0
                   THEN errorName \o <<" ","e","r","r","o","r","(","s",")"," ","i","n"," ">> \o join(target, <<","," ">>)
                   ELSE errorName \o <<" ","e","r","r","o","r","(","s",")">>
    IN  Obj((k_code :> Str(code))
         @@ (k_status :> Num(status))
         @@ (k_target :> Arr([i \in 1..Len(target) |-> Str(target[i])]))
         @@ (k_timestamp :> DateOf(now))
         @@ (k_type :> Str(type))
         @@ (k_message :> Str(message))
         @@ (k_detail :> Str(detail)))

\* a constructor that lets the raising site's text replace the derived message
CreateBaseException_SiteMessage(columns, status, type, detail, now) ==
    LET found == GetEnumByValue(Num(status), HttpStatus)
        code == IF found.t = "string" /\ found.v # <<>> THEN found.v ELSE UNKNOWN
        target == filterNonBlank(columns)
        errorName == toLowerCase(replaceUnderscores(code))
        message == IF detail # <<>> THEN detail
                   ELSE IF Len(target) > 0
                   THEN errorName \o <<" ","e","r","r","o","r","(","s",")"," ","i","n"," ">> \o join(target, <<","," ">>)
                   ELSE errorName \o <<" ","e","r","r","o","r","(","s",")">>
    IN  Obj((k_code :> Str(code))
         @@ (k_status :> Num(status))
         @@ (k_target :> Arr([i \in 1..Len(target) |-> Str(target[i])]))
         @@ (k_timestamp :> DateOf(now))
         @@ (k_type :> Str(type))
         @@ (k_message :> Str(message))
         @@ (k_detail :> Str(detail)))

\* BaseExceptionDto.CreateBaseException -> new BaseExceptionDto(columns, status, type, detail)
CreateBaseException(columns, status, type, detail, now) ==
    LET found == GetEnumByValue(Num(status), HttpStatus)
        code == IF found.t = "string" /\ found.v # <<>> THEN found.v ELSE UNKNOWN
        target == filterNonBlank(columns)
        errorName == toLowerCase(replaceUnderscores(code))
        message == IF Len(target) > 0
                   THEN errorName \o <<" ","e","r","r","o","r","(","s",")"," ","i","n"," ">> \o join(target, <<","," ">>)
                   ELSE errorName \o <<" ","e","r","r","o","r","(","s",")">>
    IN  Obj((k_code :> Str(code))
         @@ (k_status :> Num(status))
         @@ (k_target :> Arr([i \in 1..Len(target) |-> Str(target[i])]))
         @@ (k_timestamp :> DateOf(now))
         @@ (k_type :> Str(type))
         @@ (k_message :> Str(message))
         @@ (k_detail :> Str(detail)))

----------------------------------------------------------------------------
(* SpecDto: raising sites building error records *)

email == <<"e","m","a","i","l">>
id == <<"i","d">>

\* the field names a raising site passes: empty, whitespace-only and real names
FieldNames == {<<>>, <<" ">>, email, id}

\* the statuses a raising site passes: an HttpStatus member and a number that
\* HttpStatus does not name
StatusCodes == {400, 299}

Kinds == {VALIDATION, NOT_FOUND}

Details == {<<>>, <<"E","m","a","i","l"," ","f","o","r","m","a","t"," ","i","s"," ","i","n","v","a","l","i","d">>}

Slots == {"a", "b"}

NotBuilt == [built |-> FALSE]

DtoInit ==
    /\ clock = 0
    /\ dtos = [s \in Slots |-> NotBuilt]

\* a raising site builds a record: BaseExceptionDto.CreateBaseException(...);
\* slot "a" holds the record built first
Construct(slot, columns, status, type, detail) ==
    /\ ~dtos[slot].built
    /\ slot = "b" => dtos["a"].built
    /\ dtos' = [dtos EXCEPT ![slot] =
                  [built |-> TRUE, columns |-> columns, status |-> status,
                   type |-> type, detail |-> detail,
                   dto |-> CreateBaseException(columns, status, type, detail, clock)]]
    /\ clock' = clock + 1
    /\ UNCHANGED <<pipelineVars, exceptions, nestLog, heap, maskCall, startupVars>>

NextDto ==
    \E slot \in Slots :
        /\ ~dtos[slot].built
        /\ \E columns \in SeqsUpTo(FieldNames, MaxColumns), status \in StatusCodes,
              type \in Kinds, detail \in Details :
               Construct(slot, columns, status, type, detail)

----------------------------------------------------------------------------
(* Thrown values *)

k_statusCode == <<"s","t","a","t","u","s","C","o","d","e">>
k_error == <<"e","r","r","o","r">>

\* Error.prototype.stack: the header line and the frames
stackOf(name, message) == name \o <<":"," ">> \o message \o <<"\n">> \o <<" "," "," "," ","a","t"," ","h","a","n","d","l","e","r">>

\* new Error(message)
ErrorOf(message) ==
    [t |-> "error", class |-> "Error", name |-> <<"E","r","r","o","r">>, message |-> message,
     stack |-> stackOf(<<"E","r","r","o","r">>, message)]

\* new HttpException(response, status) of @nestjs/common, as the class `name`:
\* its message is the response when that is a string, response.message when that
\* is a string, and otherwise the words of the class name
HttpException(name, nameWords, response, status) ==
    LET message == IF response.t = "string" THEN response.v
                   ELSE IF Get(response, k_message).t = "string" THEN Get(response, k_message).v
                   ELSE nameWords
    IN  [t |-> "error", class |-> "HttpException", name |-> name, message |-> message,
         stack |-> stackOf(name, message), response |-> response, status |-> status]

\* identifier.toString() and `${identifier}` of a string | number
identifierToString(identifier) ==
    IF identifier.t = "number" THEN numberToString(identifier.v) ELSE identifier.v

\* an exception that names the resource, not the identifier, as its target
NotFoundException_ResourceTarget(resource, identifier, now) ==
    HttpException(<<"N","o","t","F","o","u","n","d","E","x","c","e","p","t","i","o","n">>, <<"N","o","t"," ","F","o","u","n","d"," ","E","x","c","e","p","t","i","o","n">>,
        CreateBaseException(<<resource>>, 404, NOT_FOUND,
            resource \o <<" ","w","i","t","h"," ","i","d","e","n","t","i","f","i","e","r"," ">> \o identifierToString(identifier) \o <<" ","n","o","t"," ","f","o","u","n","d">>, now),
        404)

\* new NotFoundException(resource, identifier)
NotFoundException(resource, identifier, now) ==
    HttpException(<<"N","o","t","F","o","u","n","d","E","x","c","e","p","t","i","o","n">>, <<"N","o","t"," ","F","o","u","n","d"," ","E","x","c","e","p","t","i","o","n">>,
        CreateBaseException(<<identifierToString(identifier)>>, 404, NOT_FOUND,
            resource \o <<" ","w","i","t","h"," ","i","d","e","n","t","i","f","i","e","r"," ">> \o identifierToString(identifier) \o <<" ","n","o","t"," ","f","o","u","n","d">>, now),
        404)

\* an exception that passes the next status to its parent class
UnauthorizedException_OtherStatus(detail, now) ==
    HttpException(<<"U","n","a","u","t","h","o","r","i","z","e","d","E","x","c","e","p","t","i","o","n">>, <<"U","n","a","u","t","h","o","r","i","z","e","d"," ","E","x","c","e","p","t","i","o","n">>,
        CreateBaseException(<<>>, 401, UNAUTHORIZED,
            IF detail = Undefined THEN <<"A","u","t","h","e","n","t","i","c","a","t","i","o","n"," ","r","e","q","u","i","r","e","d">> ELSE detail.v, now),
        403)

\* new UnauthorizedException(detail), detail undefined when omitted
UnauthorizedException(detail, now) ==
    HttpException(<<"U","n","a","u","t","h","o","r","i","z","e","d","E","x","c","e","p","t","i","o","n">>, <<"U","n","a","u","t","h","o","r","i","z","e","d"," ","E","x","c","e","p","t","i","o","n">>,
        CreateBaseException(<<>>, 401, UNAUTHORIZED,
            IF detail = Undefined THEN <<"A","u","t","h","e","n","t","i","c","a","t","i","o","n"," ","r","e","q","u","i","r","e","d">> ELSE detail.v, now),
        401)

\* new ForbiddenException(resource)
ForbiddenException(resource, now) ==
    HttpException(<<"F","o","r","b","i","d","d","e","n","E","x","c","e","p","t","i","o","n">>, <<"F","o","r","b","i","d","d","e","n"," ","E","x","c","e","p","t","i","o","n">>,
        CreateBaseException(<<>>, 403, FORBIDDEN,
            <<"Y","o","u"," ","d","o"," ","n","o","t"," ","h","a","v","e"," ","p","e","r","m","i","s","s","i","o","n"," ","t","o"," ","a","c","c","e","s","s"," ">> \o resource, now),
        403)

\* new DatabaseOperationException(error, methodName): the exception itself
DatabaseOperationException(error, methodName, now) ==
    HttpException(<<"D","a","t","a","b","a","s","e","O","p","e","r","a","t","i","o","n","E","x","c","e","p","t","i","o","n">>, <<"D","a","t","a","b","a","s","e"," ","O","p","e","r","a","t","i","o","n"," ","E","x","c","e","p","t","i","o","n">>,
        CreateBaseException(<<>>, 500, INTERNAL_SERVER_ERROR, error.message, now),
        500)

\* new CustomBadRequestException(fields, type, detail)
CustomBadRequestException(fields, type, detail, now) ==
    HttpException(<<"C","u","s","t","o","m","B","a","d","R","e","q","u","e","s","t","E","x","c","e","p","t","i","o","n">>, <<"C","u","s","t","o","m"," ","B","a","d"," ","R","e","q","u","e","s","t"," ","E","x","c","e","p","t","i","o","n">>,
        CreateBaseException(fields, 400, type, detail, now), 400)

\* the BadRequestException the global ValidationPipe raises for a rejected body
ValidationPipeException ==
    HttpException(<<"B","a","d","R","e","q","u","e","s","t","E","x","c","e","p","t","i","o","n">>, <<"B","a","d"," ","R","e","q","u","e","s","t"," ","E","x","c","e","p","t","i","o","n">>,
        Obj((k_statusCode :> Num(400))
         @@ (k_message :> Arr(<<Str(<<"e","m","a","i","l"," ","m","u","s","t"," ","b","e"," ","a","n"," ","e","m","a","i","l">>)>>))
         @@ (k_error :> Str(<<"B","a","d"," ","R","e","q","u","e","s","t">>))),
        400)

\* new HttpException('Too many requests', 429): a framework exception whose
\* response is a string
StringResponseException ==
    HttpException(<<"H","t","t","p","E","x","c","e","p","t","i","o","n">>, <<"H","t","t","p"," ","E","x","c","e","p","t","i","o","n">>, Str(<<"T","o","o"," ","M","a","n","y"," ","R","e","q","u","e","s","t","s">>), 429)

\* exception instanceof HttpException / instanceof Error
instanceofHttpException(x) == x.t = "error" /\ x.class = "HttpException"
instanceofError(x) == x.t = "error"

\* error.stack and error.message of any thrown value (undefined when absent)
stackProperty(x) == IF x.t = "error" THEN Str(x.stack) ELSE Undefined
messageProperty(x) == IF x.t = "error" THEN Str(x.message) ELSE Undefined

\* String(x)
RECURSIVE String(_)
String(x) ==
    IF x.t = "error" THEN (IF x.message = <<>> THEN x.name ELSE x.name \o <<":"," ">> \o x.message)
    ELSE IF x.t = "string" THEN x.v
    ELSE IF x.t = "number" THEN numberToString(x.v)
    ELSE IF x.t = "array" THEN join([i \in 1..Len(x.v) |-> String(x.v[i])], <<",">>)
    ELSE IF x.t = "null" THEN <<"n","u","l","l">>
    ELSE IF x.t = "undefined" THEN <<"u","n","d","e","f","i","n","e","d">>
    ELSE <<"[","o","b","j","e","c","t"," ","O","b","j","e","c","t","]">>

\* the HttpException in the catch clause of the readiness probe
ReadinessException ==
    HttpException(<<"H","t","t","p","E","x","c","e","p","t","i","o","n">>, <<"H","t","t","p"," ","E","x","c","e","p","t","i","o","n">>,
        Obj((k_status :> Str(<<"n","o","t"," ","r","e","a","d","y">>)) @@ (k_error :> Str(<<"c","o","n","n","e","c","t","i","o","n"," ","l","o","s","t">>))),
        503)

UsersUrl == <<"/","a","p","i","/","v","1","/","u","s","e","r","s">>
\* the feature route asked for with a query string that names a health path
UsersQueryUrl == <<"/","a","p","i","/","v","1","/","u","s","e","r","s","?","f","r","o","m","=","/","h","e","a","l","t","h">>

\* what the handler of `url`, or a pipe in front of it, throws at time `now`:
\* the validation pipe rejects the query of the GET request; the POST handler
\* raises a taxonomy exception, a framework exception, a runtime error or a
\* value that is no error
Thrown(url, now) ==
    IF url = UsersQueryUrl THEN {ValidationPipeException}
    ELSE { NotFoundException(<<"U","s","e","r">>, Num(42), now),
           StringResponseException,
           ErrorOf(<<"c","o","n","n","e","c","t","i","o","n"," ","l","o","s","t">>),
           Str(<<"p","l","a","i","n"," ","t","e","x","t"," ","t","h","r","o","w","n">>) }

----------------------------------------------------------------------------
(* Configuration: config/logger.config.ts *)

DefaultSensitiveFields ==
    << <<"p","a","s","s","w","o","r","d">>, <<"r","e","f","r","e","s","h","T","o","k","e","n">>, <<"a","c","c","e","s","s","T","o","k","e","n">>, <<"a","p","i","K","e","y">>, <<"s","e","c","r","e","t">>, <<"t","o","k","e","n">> >>

DefaultExcludePaths == << <<"/","a","p","i","/","v","1","/","h","e","a","l","t","h">>, <<"/","h","e","a","l","t","h">> >>

----------------------------------------------------------------------------
(* Logger calls: CustomLoggerService.log / error *)

k_trace == <<"t","r","a","c","e">>
k_method == <<"m","e","t","h","o","d">>
k_url == <<"u","r","l">>
k_body == <<"b","o","d","y">>
k_correlationId == <<"c","o","r","r","e","l","a","t","i","o","n","I","d">>
k_responseTime == <<"r","e","s","p","o","n","s","e","T","i","m","e">>
k_path == <<"p","a","t","h">>
k_exception == <<"e","x","c","e","p","t","i","o","n">>

\* the context or {} when it is null or undefined: context ?? {}
orEmptyObject(context) == IF context.t \in {"null", "undefined"} THEN Obj(<<>>) ELSE context

\* a log() that writes the context as it was handed in
LoggerLog_Unmasked(fields, r, message, context) ==
    [req |-> r, level |-> "info", message |-> message, meta |-> orEmptyObject(context)]

\* log(message, context): this.logger.info(message, mask(context ?? {}))
LoggerLog(fields, r, message, context) ==
    [req |-> r, level |-> "info", message |-> message,
     meta |-> maskSensitiveData(fields, orEmptyObject(context))]

\* an error() that writes on the info channel
LoggerError_Info(fields, r, message, trace, context) ==
    [req |-> r, level |-> "info", message |-> message,
     meta |-> Obj(spread(maskSensitiveData(fields, orEmptyObject(context)))
                  @@ (k_trace :> trace))]

\* error(message, trace, context): this.logger.error(message, {trace, ...mask(context ?? {})})
LoggerError(fields, r, message, trace, context) ==
    [req |-> r, level |-> "error", message |-> message,
     meta |-> Obj(spread(maskSensitiveData(fields, orEmptyObject(context)))
                  @@ (k_trace :> trace))]

----------------------------------------------------------------------------
(* Requests *)

Requests == 1..MaxRequests

GET == <<"G","E","T">>
POST == <<"P","O","S","T">>

\* the requests clients send: one to a feature route, with a body that holds a
\* sensitive field, and one to the feature route whose query string holds an
\* entry of the default exclusion list
Inbound ==
    { [method |-> POST, url |-> UsersUrl,
       body |-> Obj((email :> Str(<<"a">>)) @@ (<<"p","a","s","s","w","o","r","d">> :> Str(<<"a","b","c","1","2","3">>)))],
      [method |-> GET, url |-> UsersQueryUrl, body |-> Undefined] }

NoRequest == [pc |-> "new", outcome |-> "none"]

\* randomUUID(): the n-th value drawn; no two draws agree
randomUUID(n) == <<"u","u","i","d","-">> \o numberToString(n)

\* the status the framework sets on the response before the interceptors run
defaultStatusCode(method) == IF method = POST THEN 201 ELSE 200

IncomingRequest == <<"I","n","c","o","m","i","n","g"," ","r","e","q","u","e","s","t">>
RequestCompleted == <<"R","e","q","u","e","s","t"," ","c","o","m","p","l","e","t","e","d">>
RequestFailed == <<"R","e","q","u","e","s","t"," ","f","a","i","l","e","d">>
ExceptionCaught == <<"E","x","c","e","p","t","i","o","n"," ","c","a","u","g","h","t",":"," ">>

PipelineInit ==
    /\ sensitiveFields = DefaultSensitiveFields
    /\ excludePaths = DefaultExcludePaths
    /\ requests = [r \in Requests |-> NoRequest]
    /\ log = <<>>
    /\ responses = [r \in Requests |-> <<>>]
    /\ uuids = 0

\* an exclusion test on the path alone, the query string cut off
isExcluded_PathOnly(paths, url) ==
    \E i \in 1..Len(paths) : includes(split(url, "?")[1], paths[i])

\* an exclusion test that compares the whole url: url === path
isExcluded_WholeUrl(paths, url) == \E i \in 1..Len(paths) : url = paths[i]

\* this.excludePaths.some((path) => url.includes(path))
isExcluded(paths, url) == \E i \in 1..Len(paths) : includes(url, paths[i])

\* LoggerInterceptor.intercept up to the return of the observable: request r
\* arrives as `inbound`
Intercept(r, inbound) ==
    /\ requests[r].pc = "new"
    /\ \A q \in Requests : q < r => requests[q].pc # "new"
    /\ IF isExcluded(excludePaths, inbound.url)
       THEN /\ requests' = [requests EXCEPT ![r] =
                   [pc |-> "handling", method |-> inbound.method, url |-> inbound.url,
                    body |-> inbound.body, correlationId |-> Undefined,
                    tapped |-> FALSE, now |-> clock, thrown |-> Undefined,
                    outcome |-> "none"]]
            /\ UNCHANGED <<log, uuids>>
       ELSE LET correlationId == randomUUID(uuids)
            IN  /\ requests' = [requests EXCEPT ![r] =
                       [pc |-> "handling", method |-> inbound.method, url |-> inbound.url,
                        body |-> inbound.body, correlationId |-> Str(correlationId),
                        tapped |-> TRUE, now |-> clock, thrown |-> Undefined,
                        outcome |-> "none"]]
                /\ uuids' = uuids + 1
                /\ log' = Append(log,
                       LoggerLog(sensitiveFields, r, IncomingRequest,
                           Obj((k_method :> Str(inbound.method))
                            @@ (k_url :> Str(inbound.url))
                            @@ (k_body :> inbound.body)
                            @@ (k_correlationId :> Str(correlationId)))))
    /\ clock' = clock + 1
    /\ UNCHANGED <<dtos, exceptions, nestLog, heap, maskCall, sensitiveFields, excludePaths, responses, startupVars>>

\* the handler returns: tap's next callback runs when the interceptor installed
\* it, then the framework writes the handler's result
HandlerReturns(r) ==
    /\ requests[r].pc = "handling"
    /\ LET req == requests[r]
           statusCode == defaultStatusCode(req.method)
       IN  /\ log' = IF req.tapped
                     THEN Append(log,
                            LoggerLog(sensitiveFields, r, RequestCompleted,
                                Obj((k_method :> Str(req.method))
                                 @@ (k_url :> Str(req.url))
                                 @@ (k_statusCode :> Num(statusCode))
                                 @@ (k_responseTime :>
                                        Str(numberToString(clock - req.now) \o <<"m","s">>))
                                 @@ (k_correlationId :> req.correlationId))))
                     ELSE log
           /\ responses' = [responses EXCEPT ![r] =
                   Append(@, [status |-> statusCode, body |-> Obj(<<>>), by |-> "handler"])]
    /\ requests' = [requests EXCEPT ![r].pc = "done", ![r].outcome = "returned"]
    /\ clock' = clock + 1
    /\ UNCHANGED <<dtos, exceptions, nestLog, heap, maskCall, sensitiveFields, excludePaths, uuids, startupVars>>

\* a handler failure the interceptor's tap does not observe
HandlerThrows_Unobserved(r, exception) ==
    /\ requests[r].pc = "handling"
    /\ requests' = [requests EXCEPT ![r].pc = "filter", ![r].thrown = exception,
                                    ![r].outcome = "threw"]
    /\ clock' = clock + 1
    /\ UNCHANGED <<dtos, exceptions, nestLog, heap, maskCall, sensitiveFields, excludePaths, responses, uuids, log, startupVars>>

\* the handler, or a pipe in front of it, throws `exception`: tap's error
\* callback runs when the interceptor installed it; the exception goes on to
\* the global filter
HandlerThrows(r, exception) ==
    /\ requests[r].pc = "handling"
    /\ LET req == requests[r]
           stack == stackProperty(exception)
       IN  log' = IF req.tapped
                  THEN Append(log,
                         LoggerError(sensitiveFields, r, RequestFailed,
                             IF stack.t = "undefined" THEN Str(<<"N","o"," ","s","t","a","c","k"," ","t","r","a","c","e">>) ELSE stack,
                             Obj((k_method :> Str(req.method))
                              @@ (k_url :> Str(req.url))
                              @@ (k_error :> messageProperty(exception))
                              @@ (k_responseTime :>
                                     Str(numberToString(clock - req.now) \o <<"m","s">>))
                              @@ (k_correlationId :> req.correlationId))))
                  ELSE log
    /\ requests' = [requests EXCEPT ![r].pc = "filter", ![r].thrown = exception,
                                    ![r].outcome = "threw"]
    /\ clock' = clock + 1
    /\ UNCHANGED <<dtos, exceptions, nestLog, heap, maskCall, sensitiveFields, excludePaths, responses, uuids, startupVars>>

----------------------------------------------------------------------------
(* Global exception filter: LoggerExceptionFilter.catch *)

InternalServerError == <<"I","n","t","e","r","n","a","l"," ","S","e","r","v","e","r"," ","E","r","r","o","r">>

\* the status catch() answers with
statusOf(exception) ==
    IF instanceofHttpException(exception) THEN exception.status ELSE 500

\* a filter that wraps every HttpException, whatever its response
exceptionResponseOf_Wrapped(exception) ==
    IF instanceofHttpException(exception)
    THEN Obj((k_statusCode :> Num(exception.status))
          @@ (k_message :> Str(exception.message))
          @@ (k_error :> Str(<<"E","r","r","o","r">>)))
    ELSE IF instanceofError(exception)
    THEN Obj((k_statusCode :> Num(500))
          @@ (k_message :> Str(exception.message))
          @@ (k_error :> Str(InternalServerError)))
    ELSE Obj((k_statusCode :> Num(500))
          @@ (k_message :> Str(<<"A","n"," ","u","n","e","x","p","e","c","t","e","d"," ","e","r","r","o","r"," ","o","c","c","u","r","r","e","d">>))
          @@ (k_error :> Str(InternalServerError)))

\* a filter that hands the stack of a runtime error to the client
exceptionResponseOf_WithStack(exception) ==
    IF instanceofHttpException(exception)
    THEN IF typeofObject(exception.response)
         THEN exception.response
         ELSE Obj((k_statusCode :> Num(exception.status))
               @@ (k_message :> Str(String(exception.response)))
               @@ (k_error :> Str(<<"E","r","r","o","r">>)))
    ELSE IF instanceofError(exception)
    THEN Obj((k_statusCode :> Num(500))
          @@ (k_message :> Str(exception.message))
          @@ (k_error :> Str(InternalServerError))
          @@ (<<"s","t","a","c","k">> :> Str(exception.stack)))
    ELSE Obj((k_statusCode :> Num(500))
          @@ (k_message :> Str(<<"A","n"," ","u","n","e","x","p","e","c","t","e","d"," ","e","r","r","o","r"," ","o","c","c","u","r","r","e","d">>))
          @@ (k_error :> Str(InternalServerError)))

\* the body catch() answers with (exceptionResponse)
exceptionResponseOf(exception) ==
    IF instanceofHttpException(exception)
    THEN IF typeofObject(exception.response)
         THEN exception.response
         ELSE Obj((k_statusCode :> Num(exception.status))
               @@ (k_message :> Str(String(exception.response)))
               @@ (k_error :> Str(<<"E","r","r","o","r">>)))
    ELSE IF instanceofError(exception)
    THEN Obj((k_statusCode :> Num(500))
          @@ (k_message :> Str(exception.message))
          @@ (k_error :> Str(InternalServerError)))
    ELSE Obj((k_statusCode :> Num(500))
          @@ (k_message :> Str(<<"A","n"," ","u","n","e","x","p","e","c","t","e","d"," ","e","r","r","o","r"," ","o","c","c","u","r","r","e","d">>))
          @@ (k_error :> Str(InternalServerError)))

\* a filter that reads the id the interceptor drew last, kept on the singleton
latestCorrelationId(r) == IF uuids = 0 THEN Undefined ELSE Str(randomUUID(uuids - 1))

\* request.correlationId, as the filter reads it
requestCorrelationId(r) == requests[r].correlationId

\* a filter that answers HttpExceptions only and re-throws the rest
catchWrites_HttpOnly(exception, status, exceptionResponse) ==
    IF instanceofHttpException(exception)
    THEN << [status |-> status, body |-> exceptionResponse, by |-> "filter"] >>
    ELSE << >>

\* response.status(status).json(exceptionResponse): the responses catch() writes
catchWrites(exception, status, exceptionResponse) ==
    << [status |-> status, body |-> exceptionResponse, by |-> "filter"] >>

\* LoggerExceptionFilter.catch for the exception request r raised
Catch(r) ==
    /\ requests[r].pc = "filter"
    /\ LET req == requests[r]
           exception == req.thrown
           status == statusOf(exception)
           exceptionResponse == exceptionResponseOf(exception)
       IN  /\ log' = Append(log,
                  LoggerError(sensitiveFields, r, ExceptionCaught \o String(exception),
                      IF instanceofError(exception) THEN stackProperty(exception) ELSE Undefined,
                      Obj((k_path :> Str(req.url))
                       @@ (k_method :> Str(req.method))
                       @@ (k_statusCode :> Num(status))
                       @@ (k_correlationId :> requestCorrelationId(r))
                       @@ (k_exception :> exceptionResponse))))
           /\ responses' = [responses EXCEPT ![r] =
                   @ \o catchWrites(exception, status, exceptionResponse)]
    /\ requests' = [requests EXCEPT ![r].pc = "done"]
    /\ clock' = clock + 1
    /\ UNCHANGED <<dtos, exceptions, nestLog, heap, maskCall, sensitiveFields, excludePaths, uuids, startupVars>>

----------------------------------------------------------------------------
(* SpecTaxonomy: raising sites constructing the taxonomy's exceptions *)

TaxonomyInit ==
    /\ exceptions = <<>>
    /\ nestLog = <<>>

\* no process started, no health endpoint called
StartupIdle ==
    /\ environ = <<>>
    /\ envFile = <<>>
    /\ boot = <<>>
    /\ health = [pc |-> "idle"]

\* no call of maskSensitiveData under way
MaskIdle ==
    /\ heap = <<>>
    /\ maskCall = [pc |-> "idle"]

User == <<"U","s","e","r">>
Order == <<"O","r","d","e","r">>
createUser == <<"c","r","e","a","t","e","U","s","e","r">>
findAll == <<"f","i","n","d","A","l","l">>

\* the arguments raising sites pass
Resources == {User, Order}
Identifiers == {Num(42), Num(7), Str(<<"a","b","c">>), Str(<<>>), Str(<<" ">>)}
UnauthorizedDetails == {Undefined, Str(<<"T","o","k","e","n"," ","e","x","p","i","r","e","d">>)}
BadRequestFields == {<<>>, <<email>>}
UnderlyingErrors == {ErrorOf(<<"c","o","n","n","e","c","t","i","o","n"," ","l","o","s","t">>), ErrorOf(<<"d","u","p","l","i","c","a","t","e"," ","k","e","y">>)}
MethodNames == {createUser, findAll}

\* raising sites run one after the other: the next exception is constructed
\* once the one before it was swallowed or discarded
MayConstruct ==
    /\ Len(exceptions) < MaxExceptions
    /\ \A i \in 1..Len(exceptions) : exceptions[i].fate \in {"caught", "discarded"}

\* a raising site evaluates `new <variant>(...)`: the constructor has run, the
\* exception holds the record it built and has not been thrown yet
Constructed(variant, args, exception) ==
    /\ MayConstruct
    /\ exceptions' = Append(exceptions,
           [variant |-> variant, args |-> args, exception |-> exception,
            fate |-> "held"])
    /\ clock' = clock + 1
    /\ UNCHANGED <<dtos, pipelineVars, heap, maskCall, startupVars>>

NewNotFound(resource, identifier) ==
    /\ Constructed("NotFound", <<Str(resource), identifier>>,
                   NotFoundException(resource, identifier, clock))
    /\ UNCHANGED nestLog

NewUnauthorized(detail) ==
    /\ Constructed("Unauthorized", <<detail>>, UnauthorizedException(detail, clock))
    /\ UNCHANGED nestLog

NewForbidden(resource) ==
    /\ Constructed("Forbidden", <<Str(resource)>>, ForbiddenException(resource, clock))
    /\ UNCHANGED nestLog

NewBadRequest(fields, type, detail) ==
    /\ Constructed("BadRequest", <<Arr(fields), Str(type), Str(detail)>>,
                   CustomBadRequestException(fields, type, detail, clock))
    /\ UNCHANGED nestLog

\* a constructor that leaves the logging to whoever catches the exception
DatabaseOperationLogs_None(index, error, methodName) == <<>>

\* this.logger.error(`Database operation ${methodName} failed: ${error.message}`, error.stack)
\* on the Logger named after the class, for the exception constructed as number `index`
DatabaseOperationLogs(index, error, methodName) ==
    << [by |-> index, level |-> "error", context |-> <<"D","a","t","a","b","a","s","e","O","p","e","r","a","t","i","o","n","E","x","c","e","p","t","i","o","n">>,
        message |-> <<"D","a","t","a","b","a","s","e"," ","o","p","e","r","a","t","i","o","n"," ">> \o methodName \o <<" ","f","a","i","l","e","d",":"," ">> \o error.message,
        trace |-> stackProperty(error)] >>

NewDatabaseOperation(error, methodName) ==
    /\ Constructed("DatabaseOperation", <<error, Str(methodName)>>,
                   DatabaseOperationException(error, methodName, clock))
    /\ nestLog' = nestLog \o DatabaseOperationLogs(Len(exceptions) + 1, error, methodName)

\* what the raising site does with the exception it holds
Fated(i, from, to) ==
    /\ i \in 1..Len(exceptions)
    /\ exceptions[i].fate = from
    /\ exceptions' = [exceptions EXCEPT ![i].fate = to]
    /\ UNCHANGED <<clock, dtos, pipelineVars, nestLog, heap, maskCall, startupVars>>

\* throw new DatabaseOperationException(error, 'createUser')
Throw(i) == Fated(i, "held", "thrown")

\* a caller's catch block swallows the exception
Swallow(i) == Fated(i, "thrown", "caught")

\* the exception is dropped without being thrown
Discard(i) == Fated(i, "held", "discarded")

NextTaxonomy ==
    \/ /\ MayConstruct
       /\ \E resource \in Resources, identifier \in Identifiers :
              NewNotFound(resource, identifier)
    \/ /\ MayConstruct
       /\ \E detail \in UnauthorizedDetails : NewUnauthorized(detail)
    \/ /\ MayConstruct
       /\ \E resource \in Resources : NewForbidden(resource)
    \/ /\ MayConstruct
       /\ \E fields \in BadRequestFields, type \in Kinds, detail \in Details :
              NewBadRequest(fields, type, detail)
    \/ /\ MayConstruct
       /\ \E error \in UnderlyingErrors, methodName \in MethodNames :
              NewDatabaseOperation(error, methodName)
    \/ \E i \in 1..Len(exceptions) : Throw(i)
    \/ \E i \in 1..Len(exceptions) : Swallow(i)
    \/ \E i \in 1..Len(exceptions) : Discard(i)

----------------------------------------------------------------------------
(* SpecMask: callers handing structured values to maskSensitiveData *)

password == <<"p","a","s","s","w","o","r","d">>
Password == <<"P","a","s","s","w","o","r","d">>
token == <<"t","o","k","e","n">>
userToken == <<"u","s","e","r","T","o","k","e","n">>
name == <<"n","a","m","e">>
nested == <<"n","e","s","t","e","d">>

Scalars == {Str(<<"x","y","z">>), Num(1), Null, DateOf(0)}
Keys == {Password, token, userToken, name}

\* the structured values nested at most d deep
RECURSIVE ValuesOfDepth(_)
ValuesOfDepth(d) ==
    IF d = 0 THEN Scalars
    ELSE LET inner == ValuesOfDepth(d - 1)
         IN  Scalars
             \cup {Arr(<<>>)}
             \cup {Arr(<<v>>) : v \in inner}
             \cup {Arr(<<Str(<<"a","b","c","1","2","3">>), v>>) : v \in inner}
             \cup {Obj(k :> v) : k \in Keys, v \in inner}
             \cup {Obj((password :> Str(<<"a","b","c","1","2","3">>)) @@ (nested :> v)) : v \in inner}

MaskInputs == ValuesOfDepth(MaxDepth)

\* the lists config.sensitiveFields can hold
FieldLists == {DefaultSensitiveFields, <<<<"N","a","m","e">>>>}

\* a caller holds a value; the service was constructed with its list
InitMask ==
    /\ clock = 0
    /\ dtos = [s \in Slots |-> NotBuilt]
    /\ excludePaths = DefaultExcludePaths
    /\ requests = [r \in Requests |-> NoRequest]
    /\ log = <<>>
    /\ responses = [r \in Requests |-> <<>>]
    /\ uuids = 0
    /\ TaxonomyInit
    /\ StartupIdle
    /\ sensitiveFields \in FieldLists
    /\ \E given \in MaskInputs :
          LET stored == store(<<>>, given)
          IN  /\ heap = stored.heap
              /\ maskCall = [pc |-> "ready", given |-> given, data |-> stored.value,
                             result |-> Undefined, again |-> Undefined]

\* this.maskSensitiveData(data)
Mask ==
    /\ maskCall.pc = "ready"
    /\ LET r == maskHeap([i \in 1..Len(sensitiveFields) |-> toLowerCase(sensitiveFields[i])],
                         heap, maskCall.data)
       IN  /\ heap' = r.heap
           /\ maskCall' = [maskCall EXCEPT !.pc = "masked", !.result = r.value]
    /\ UNCHANGED <<clock, dtos, pipelineVars, exceptions, nestLog, startupVars>>

\* the value returned is handed to maskSensitiveData once more
MaskResult ==
    /\ maskCall.pc = "masked"
    /\ LET r == maskHeap([i \in 1..Len(sensitiveFields) |-> toLowerCase(sensitiveFields[i])],
                         heap, maskCall.result)
       IN  /\ heap' = r.heap
           /\ maskCall' = [maskCall EXCEPT !.pc = "again", !.again = r.value]
    /\ UNCHANGED <<clock, dtos, pipelineVars, exceptions, nestLog, startupVars>>

NextMask == Mask \/ MaskResult

----------------------------------------------------------------------------
(* Process environment and the env object: config/env.ts *)

\* the environment variables the configuration reads
EnvNames ==
    {"NODE_ENV", "PORT", "USE_DATABASE", "USE_REDIS", "USE_VAULT",
     "DB_NAME", "DB_HOST", "DB_PORT", "DB_USER", "DB_PASSWORD", "DB_USE_CONNECTION_POOLER",
     "DB_SSL", "REDIS_HOST", "REDIS_PORT", "REDIS_USER", "REDIS_PASSWORD",
     "LOG_LEVEL", "LOG_FORMAT", "LOG_SENSITIVE_FIELDS", "ERROR_LOG_EXCHANGE",
     "LOG_EXCLUDE_PATHS", "JWT_ACCESS_TOKEN_SECRET", "JWT_ACCESS_TOKEN_EXPIRES_IN",
     "JWT_REFRESH_TOKEN_SECRET", "JWT_REFRESH_TOKEN_EXPIRES_IN"}

\* an environment in which no variable is set
NoVariables == [n \in EnvNames |-> Undefined]

\* export const env = {...}: evaluated once, when config/env is first imported
env(processEnv) ==
    [NODE_ENV |-> orElse(processEnv["NODE_ENV"], <<"d","e","v","e","l","o","p","m","e","n","t">>),
     PORT |-> parseInt(orElse(processEnv["PORT"], <<"3","0","0","0">>)),
     USE_DATABASE |-> isTrue(processEnv["USE_DATABASE"]),
     USE_REDIS |-> isTrue(processEnv["USE_REDIS"]),
     USE_VAULT |-> isTrue(processEnv["USE_VAULT"])]

----------------------------------------------------------------------------
(* Configuration loaders: config/*.config.ts, vault/vault.loader.ts *)

\* a logger configuration that adds the listed fields to the default ones
loggerConfig_Added(processEnv) ==
    [level |-> orElse(processEnv["LOG_LEVEL"], <<"d","e","b","u","g">>),
     format |-> orElse(processEnv["LOG_FORMAT"], <<"p","r","e","t","t","y">>),
     sensitiveFields |->
         IF truthy(processEnv["LOG_SENSITIVE_FIELDS"])
         THEN DefaultSensitiveFields \o split(processEnv["LOG_SENSITIVE_FIELDS"].v, ",")
         ELSE DefaultSensitiveFields,
     errorLogExchange |-> orElse(processEnv["ERROR_LOG_EXCHANGE"], <<"e","r","r","o","r","-","l","o","g","s">>),
     excludePaths |->
         IF truthy(processEnv["LOG_EXCLUDE_PATHS"])
         THEN split(processEnv["LOG_EXCLUDE_PATHS"].v, ",")
         ELSE DefaultExcludePaths]

\* registerAs('logger', ...)
loggerConfig(processEnv) ==
    [level |-> orElse(processEnv["LOG_LEVEL"], <<"d","e","b","u","g">>),
     format |-> orElse(processEnv["LOG_FORMAT"], <<"p","r","e","t","t","y">>),
     sensitiveFields |->
         IF truthy(processEnv["LOG_SENSITIVE_FIELDS"])
         THEN split(processEnv["LOG_SENSITIVE_FIELDS"].v, ",")
         ELSE DefaultSensitiveFields,
     errorLogExchange |-> orElse(processEnv["ERROR_LOG_EXCHANGE"], <<"e","r","r","o","r","-","l","o","g","s">>),
     excludePaths |->
         IF truthy(processEnv["LOG_EXCLUDE_PATHS"])
         THEN split(processEnv["LOG_EXCLUDE_PATHS"].v, ",")
         ELSE DefaultExcludePaths]

\* registerAs('jwt', ...)
jwtConfig(processEnv) ==
    [accessTokenSecret |->
         orElse(processEnv["JWT_ACCESS_TOKEN_SECRET"], <<"c","h","a","n","g","e","-","m","e","-","a","c","c","e","s","s","-","s","e","c","r","e","t">>),
     accessTokenExpiresIn |-> orElse(processEnv["JWT_ACCESS_TOKEN_EXPIRES_IN"], <<"1","5","m">>),
     refreshTokenSecret |->
         orElse(processEnv["JWT_REFRESH_TOKEN_SECRET"], <<"c","h","a","n","g","e","-","m","e","-","r","e","f","r","e","s","h","-","s","e","c","r","e","t">>),
     refreshTokenExpiresIn |-> orElse(processEnv["JWT_REFRESH_TOKEN_EXPIRES_IN"], <<"7","d">>)]

\* registerAs('database', ...)
databaseConfig(processEnv) ==
    [name |-> orElse(processEnv["DB_NAME"], <<"d","e","f","a","u","l","t","_","d","b">>),
     host |-> orElse(processEnv["DB_HOST"], <<"l","o","c","a","l","h","o","s","t">>),
     port |-> parseInt(orElse(processEnv["DB_PORT"], <<"5","4","3","2">>)),
     username |-> orElse(processEnv["DB_USER"], <<"u","s","e","r">>),
     password |-> orElse(processEnv["DB_PASSWORD"], <<"p","a","s","s","w","o","r","d">>),
     useConnectionPooler |-> isTrue(processEnv["DB_USE_CONNECTION_POOLER"])]

\* registerAs('redis', ...)
redisConfig(processEnv) ==
    [host |-> orElse(processEnv["REDIS_HOST"], <<"l","o","c","a","l","h","o","s","t">>),
     port |-> parseInt(orElse(processEnv["REDIS_PORT"], <<"6","3","7","9">>)),
     username |-> orElse(processEnv["REDIS_USER"], <<>>),
     password |-> orElse(processEnv["REDIS_PASSWORD"], <<>>)]

\* what vaultClient.read answers: a response with data.data (kind "bundle"), a
\* response without it ("empty"), a rejection with an Error ("error") or with a
\* value that is no Error ("thrown")
SecretNotFound == <<"S","e","c","r","e","t"," ","n","o","t"," ","f","o","u","n","d"," ","i","n"," ","V","a","u","l","t">>
ConnectionRefused == <<"c","o","n","n","e","c","t"," ","E","C","O","N","N","R","E","F","U","S","E","D">>

\* vaultLoader(): the bundle, or the Error it throws instead
vaultLoader(response) ==
    CASE response.kind = "bundle" -> [ok |-> TRUE, value |-> response.data]
      [] response.kind = "empty" ->
            [ok |-> FALSE,
             error |-> ErrorOf(<<"F","a","i","l","e","d"," ","t","o"," ","f","e","t","c","h"," ","s","e","c","r","e","t","s"," ","f","r","o","m"," ","V","a","u","l","t",":"," ">> \o SecretNotFound)]
      [] response.kind = "error" ->
            [ok |-> FALSE,
             error |-> ErrorOf(<<"F","a","i","l","e","d"," ","t","o"," ","f","e","t","c","h"," ","s","e","c","r","e","t","s"," ","f","r","o","m"," ","V","a","u","l","t",":"," ">> \o response.message)]
      [] response.kind = "thrown" ->
            [ok |-> FALSE, error |-> ErrorOf(<<"F","a","i","l","e","d"," ","t","o"," ","f","e","t","c","h"," ","s","e","c","r","e","t","s"," ","f","r","o","m"," ","V","a","u","l","t">>)]

\* the registration token of a loader made by registerAs; vaultLoader has none
tokenOf(loader) ==
    CASE loader = "loggerConfig" -> "logger"
      [] loader = "jwtConfig" -> "jwt"
      [] loader = "databaseConfig" -> "database"
      [] loader = "redisConfig" -> "redis"

\* the value a registerAs loader returns
loaded(loader, processEnv) ==
    CASE loader = "loggerConfig" -> loggerConfig(processEnv)
      [] loader = "jwtConfig" -> jwtConfig(processEnv)
      [] loader = "databaseConfig" -> databaseConfig(processEnv)
      [] loader = "redisConfig" -> redisConfig(processEnv)

----------------------------------------------------------------------------
(* Configuration Assembler: core/factories/infrastructure-module.builder.ts *)

\* ConfigurationLoaderFactory.createLoaders() with a secret-store loader that is
\* appended instead of prepended
createLoaders_VaultLast(e) ==
    LET base == <<"loggerConfig", "jwtConfig">>
        withDatabase == IF e.USE_DATABASE THEN Append(base, "databaseConfig") ELSE base
        withRedis == IF e.USE_REDIS THEN Append(withDatabase, "redisConfig") ELSE withDatabase
    IN  IF e.USE_VAULT THEN Append(withRedis, "vaultLoader") ELSE withRedis

\* ConfigurationLoaderFactory.createLoaders(): e is the env object
createLoaders(e) ==
    LET base == <<"loggerConfig", "jwtConfig">>
        withDatabase == IF e.USE_DATABASE THEN Append(base, "databaseConfig") ELSE base
        withRedis == IF e.USE_REDIS THEN Append(withDatabase, "redisConfig") ELSE withDatabase
    IN  IF e.USE_VAULT THEN <<"vaultLoader">> \o withRedis ELSE withRedis

\* ConfigurationLoaderFactory.getLoadedConfigurations()
getLoadedConfigurations(e) ==
    LET base == <<<<"l","o","g","g","e","r">>, <<"j","w","t">>>>
        withDatabase == IF e.USE_DATABASE THEN Append(base, <<"d","a","t","a","b","a","s","e">>) ELSE base
        withRedis == IF e.USE_REDIS THEN Append(withDatabase, <<"r","e","d","i","s">>) ELSE withDatabase
    IN  IF e.USE_VAULT THEN <<<<"v","a","u","l","t">>>> \o withRedis ELSE withRedis

\* ConfigurationLoaderFactory.getEnvFilePath()
getEnvFilePath(e) == IF e.USE_VAULT THEN Undefined ELSE Str(<<".","e","n","v">>)

\* the strategy classes, by constructor name
LoggerLoadStrategy == <<"L","o","g","g","e","r","L","o","a","d","S","t","r","a","t","e","g","y">>
DatabaseLoadStrategy == <<"D","a","t","a","b","a","s","e","L","o","a","d","S","t","r","a","t","e","g","y">>
RedisLoadStrategy == <<"R","e","d","i","s","L","o","a","d","S","t","r","a","t","e","g","y">>

\* InfrastructureModuleBuilder.create().withLogger().withDatabase().withRedis():
\* the strategies after the three pushes (the same chain in AppModule and main.ts)
Registered == <<LoggerLoadStrategy, DatabaseLoadStrategy, RedisLoadStrategy>>

\* DatabaseModuleFactory.shouldLoad / RedisModuleFactory.shouldLoad
DatabaseModuleFactoryShouldLoad(processEnv) == isTrue(processEnv["USE_DATABASE"])
RedisModuleFactoryShouldLoad(processEnv) == isTrue(processEnv["USE_REDIS"])

\* strategy.shouldLoad(), evaluated when process.env is processEnv
shouldLoad(strategy, processEnv) ==
    CASE strategy = LoggerLoadStrategy -> TRUE
      [] strategy = DatabaseLoadStrategy -> DatabaseModuleFactoryShouldLoad(processEnv)
      [] strategy = RedisLoadStrategy -> RedisModuleFactoryShouldLoad(processEnv)

\* strategy.create(): the module handed to the root module's imports
create(strategy) ==
    CASE strategy = LoggerLoadStrategy -> "LoggerModule"
      [] strategy = DatabaseLoadStrategy -> "MikroOrmModule"
      [] strategy = RedisLoadStrategy -> "RedisModule"

\* Array.prototype.filter with the predicate strategy.shouldLoad()
RECURSIVE filterShouldLoad(_, _)
filterShouldLoad(strategies, processEnv) ==
    IF strategies = <<>> THEN <<>>
    ELSE (IF shouldLoad(Head(strategies), processEnv) THEN <<Head(strategies)>> ELSE <<>>)
         \o filterShouldLoad(Tail(strategies), processEnv)

\* a build() that creates every registered strategy
build_Unfiltered(strategies, processEnv) ==
    [i \in 1..Len(strategies) |-> create(strategies[i])]

\* InfrastructureModuleBuilder.build()
build(strategies, processEnv) ==
    LET kept == filterShouldLoad(strategies, processEnv)
    IN  [i \in 1..Len(kept) |-> create(kept[i])]

\* InfrastructureModuleBuilder.getLoadedModules()
getLoadedModules(strategies, processEnv) ==
    LET kept == filterShouldLoad(strategies, processEnv)
    IN  [i \in 1..Len(kept) |-> replace(kept[i], <<"L","o","a","d","S","t","r","a","t","e","g","y">>, <<>>)]

----------------------------------------------------------------------------
(* Startup: app.module.ts and main.ts bootstrap() *)

Startups == 1..MaxStartups

NotStarted ==
    [pc |-> "none", processEnv |-> NoVariables, env |-> env(NoVariables),
     envFilePath |-> Undefined, loaders |-> <<>>, modules |-> <<>>, response |-> Undefined,
     config |-> <<>>, sensitiveFields |-> <<>>, database |-> Undefined, redis |-> Undefined,
     error |-> Undefined, loadedModules |-> <<>>, loadedConfigs |-> <<>>, logged |-> <<>>]

\* a startup has ended: the application listens, or NestFactory.create rejected
Ended(p) == boot[p].pc \in {"listening", "failed"}

\* the process is started and main.ts's imports reach config/env: process.env
\* holds the variables the process was started with, and env is computed from it
ImportEnv(p) ==
    /\ boot[p].pc = "none"
    /\ \A q \in Startups : q < p => Ended(q)
    /\ boot' = [boot EXCEPT ![p] =
           [@ EXCEPT !.pc = "imported", !.processEnv = environ, !.env = env(environ)]]
    /\ UNCHANGED <<clock, dtos, pipelineVars, exceptions, nestLog, heap, maskCall, environ, envFile, health>>

\* ConfigModule.forRoot reading the env file: a variable of the file is assigned
\* to process.env unless process.env has that variable already
assignVariablesToProcess(processEnv, file) ==
    [n \in EnvNames |-> IF processEnv[n] = Undefined THEN file[n] ELSE processEnv[n]]

\* whether ConfigModule.forRoot reads the .env file: it does for the path '.env';
\* for envFilePath: undefined the module falls back to its own default path
FileRead(envFilePath) == IF envFilePath = Undefined THEN BOOLEAN ELSE {TRUE}

\* @Module imports, first element: ConfigModule.forRoot({isGlobal, envFilePath:
\* getEnvFilePath(), load: createLoaders()})
ForRoot(p, fileRead) ==
    /\ boot[p].pc = "imported"
    /\ boot' = [boot EXCEPT ![p] =
           [@ EXCEPT !.pc = "configured",
                     !.envFilePath = getEnvFilePath(boot[p].env),
                     !.loaders = createLoaders(boot[p].env),
                     !.processEnv = IF fileRead
                                    THEN assignVariablesToProcess(boot[p].processEnv, envFile)
                                    ELSE boot[p].processEnv]]
    /\ UNCHANGED <<clock, dtos, pipelineVars, exceptions, nestLog, heap, maskCall, environ, envFile, health>>

\* @Module imports, spread element: InfrastructureModuleBuilder.create()
\* .withLogger().withDatabase().withRedis().build()
Build(p) ==
    /\ boot[p].pc = "configured"
    /\ boot' = [boot EXCEPT ![p] =
           [@ EXCEPT !.pc = "assembled", !.modules = build(Registered, boot[p].processEnv)]]
    /\ UNCHANGED <<clock, dtos, pipelineVars, exceptions, nestLog, heap, maskCall, environ, envFile, health>>

\* the ConfigService store after the loaders' results were merged in list order:
\* the secret-store bundle is assigned key by key, a registerAs result is set
\* under its token
RECURSIVE merged(_, _, _)
merged(loaders, bundle, processEnv) ==
    IF loaders = <<>> THEN <<>>
    ELSE LET last == loaders[Len(loaders)]
             host == merged(SubSeq(loaders, 1, Len(loaders) - 1), bundle, processEnv)
         IN  IF last = "vaultLoader" THEN bundle @@ host
             ELSE (tokenOf(last) :> loaded(last, processEnv)) @@ host

\* configService.get(key)
configGet(config, key) == IF key \in DOMAIN config THEN config[key] ELSE Undefined

\* a configuration load in which the registerAs loaders read the secret-store
\* bundle in front of the variables of the process
LoadConfiguration_BundleFirst(p, response) ==
    /\ boot[p].pc = "assembled"
    /\ LET usesVault == \E i \in 1..Len(boot[p].loaders) : boot[p].loaders[i] = "vaultLoader"
           fetched == IF usesVault THEN vaultLoader(response) ELSE [ok |-> TRUE, value |-> <<>>]
       IN  /\ usesVault <=> response # Undefined
           /\ IF fetched.ok
              THEN boot' = [boot EXCEPT ![p] =
                       [@ EXCEPT !.pc = "loaded", !.response = response,
                                 !.config = merged(boot[p].loaders, fetched.value,
                                     [v \in DOMAIN boot[p].processEnv |->
                                         IF v \in DOMAIN fetched.value
                                         THEN fetched.value[v]
                                         ELSE boot[p].processEnv[v]])]]
              ELSE boot' = [boot EXCEPT ![p] =
                       [@ EXCEPT !.pc = "failed", !.response = response,
                                 !.error = fetched.error]]
    /\ UNCHANGED <<clock, dtos, pipelineVars, exceptions, nestLog, heap, maskCall, environ, envFile, health>>

\* NestFactory.create(AppModule), first part: the loaders run; vaultLoader, when
\* in the list, gets `response` from the secret store
LoadConfiguration(p, response) ==
    /\ boot[p].pc = "assembled"
    /\ LET usesVault == \E i \in 1..Len(boot[p].loaders) : boot[p].loaders[i] = "vaultLoader"
           fetched == IF usesVault THEN vaultLoader(response) ELSE [ok |-> TRUE, value |-> <<>>]
       IN  /\ usesVault <=> response # Undefined
           /\ IF fetched.ok
              THEN boot' = [boot EXCEPT ![p] =
                       [@ EXCEPT !.pc = "loaded", !.response = response,
                                 !.config = merged(boot[p].loaders, fetched.value,
                                                   boot[p].processEnv)]]
              ELSE boot' = [boot EXCEPT ![p] =
                       [@ EXCEPT !.pc = "failed", !.response = response,
                                 !.error = fetched.error]]
    /\ UNCHANGED <<clock, dtos, pipelineVars, exceptions, nestLog, heap, maskCall, environ, envFile, health>>

DatabaseConfigurationNotFound ==
    <<"D","a","t","a","b","a","s","e"," ","c","o","n","f","i","g","u","r","a","t","i","o","n"," ","n","o","t"," ","f","o","u","n","d","."," ","E","n","s","u","r","e"," ","U","S","E","_","D","A","T","A","B","A","S","E","=","t","r","u","e"," ","a","n","d"," ","d","a","t","a","b","a","s","e"," ","c","o","n","f","i","g"," ","i","s"," ","l","o","a","d","e","d",".">>

\* a factory that falls back to the defaults of databaseConfig when the
\* 'database' configuration was not loaded
useFactory_Fallback(config, processEnv) ==
    LET dbConfig == IF configGet(config, "database") = Undefined
                    THEN databaseConfig(NoVariables)
                    ELSE configGet(config, "database")
    IN  [ok |-> TRUE,
         value |-> [host |-> dbConfig.host, password |-> dbConfig.password,
                    dbName |-> dbConfig.name, user |-> dbConfig.username,
                    port |-> dbConfig.port,
                    pooler |-> dbConfig.useConnectionPooler,
                    ssl |-> isTrue(processEnv["DB_SSL"])]]

\* DatabaseModuleFactory.create(): the useFactory handed to
\* MikroOrmModule.forRootAsync, run with the ConfigService
useFactory(config, processEnv) ==
    LET dbConfig == configGet(config, "database")
    IN  IF dbConfig = Undefined
        THEN [ok |-> FALSE, error |-> ErrorOf(DatabaseConfigurationNotFound)]
        ELSE [ok |-> TRUE,
              value |-> [host |-> dbConfig.host, password |-> dbConfig.password,
                         dbName |-> dbConfig.name, user |-> dbConfig.username,
                         port |-> dbConfig.port,
                         pooler |-> dbConfig.useConnectionPooler,
                         ssl |-> isTrue(processEnv["DB_SSL"])]]

\* the TypeError of reading a property of undefined
TypeErrorOf(property) ==
    LET message == <<"C","a","n","n","o","t"," ","r","e","a","d"," ","p","r","o","p","e","r","t","i","e","s"," ","o","f"," ","u","n","d","e","f","i","n","e","d"," ","(","r","e","a","d","i","n","g"," ","'">> \o property \o <<"'",")">>
    IN  [t |-> "error", class |-> "TypeError", name |-> <<"T","y","p","e","E","r","r","o","r">>, message |-> message,
         stack |-> stackOf(<<"T","y","p","e","E","r","r","o","r">>, message)]

\* RedisService.onModuleInit(): the options handed to new Redis
onModuleInit(config) ==
    LET redis == configGet(config, "redis")
    IN  IF redis = Undefined THEN [ok |-> FALSE, error |-> TypeErrorOf(<<"h","o","s","t">>)]
        ELSE [ok |-> TRUE,
              value |-> [host |-> redis.host, port |-> redis.port,
                         username |-> redis.username, password |-> redis.password]]

\* whether module m is among the modules
Imports(modules, m) == \E i \in 1..Len(modules) : modules[i] = m

\* NestFactory.create(AppModule), second part: the providers of the imported
\* modules are made. CustomLoggerService reads the 'logger' configuration; the
\* MikroORM factory and RedisService run when their module was imported; the
\* first of them that throws makes create() reject
InitModules(p) ==
    /\ boot[p].pc = "loaded"
    /\ LET b == boot[p]
           database == IF Imports(b.modules, "MikroOrmModule")
                       THEN useFactory(b.config, b.processEnv)
                       ELSE [ok |-> TRUE, value |-> Undefined]
           redis == IF Imports(b.modules, "RedisModule")
                    THEN onModuleInit(b.config)
                    ELSE [ok |-> TRUE, value |-> Undefined]
           thrown == {r.error : r \in {x \in {database, redis} : ~x.ok}}
       IN  IF thrown = {}
           THEN boot' = [boot EXCEPT ![p] =
                    [@ EXCEPT !.pc = "created",
                              !.sensitiveFields = configGet(b.config, "logger").sensitiveFields,
                              !.database = database.value,
                              !.redis = redis.value]]
           ELSE \E error \in thrown :
                    boot' = [boot EXCEPT ![p] = [@ EXCEPT !.pc = "failed", !.error = error]]
    /\ UNCHANGED <<clock, dtos, pipelineVars, exceptions, nestLog, heap, maskCall, environ, envFile, health>>

\* main.ts logs it with a leading emoji, which is left out here
InfrastructureModulesLoaded == <<"I","n","f","r","a","s","t","r","u","c","t","u","r","e"," ","m","o","d","u","l","e","s"," ","l","o","a","d","e","d",":">>
k_modules == <<"m","o","d","u","l","e","s">>
k_configurations == <<"c","o","n","f","i","g","u","r","a","t","i","o","n","s">>

\* the texts of a list as an array value
ArrayOfTexts(texts) == Arr([i \in 1..Len(texts) |-> Str(texts[i])])

\* bootstrap() after NestFactory.create: the loaded modules and configurations
\* are computed anew and logged; the rest of bootstrap() does not depend on them
LogLoaded(p) ==
    /\ boot[p].pc = "created"
    /\ LET loadedModules == getLoadedModules(Registered, boot[p].processEnv)
           loadedConfigs == getLoadedConfigurations(boot[p].env)
       IN  boot' = [boot EXCEPT ![p] =
               [@ EXCEPT !.pc = "listening",
                         !.loadedModules = loadedModules,
                         !.loadedConfigs = loadedConfigs,
                         !.logged = <<LoggerLog(boot[p].sensitiveFields, p,
                                         InfrastructureModulesLoaded,
                                         Obj((k_modules :> ArrayOfTexts(loadedModules))
                                          @@ (k_configurations :> ArrayOfTexts(loadedConfigs))))>>]]
    /\ UNCHANGED <<clock, dtos, pipelineVars, exceptions, nestLog, heap, maskCall, environ, envFile, health>>

\* a provider of the running application calls logger.log(message, context),
\* before the process is stopped and started again
Log(p, message, context) ==
    /\ boot[p].pc = "listening"
    /\ \A q \in Startups : q > p => boot[q].pc = "none"
    /\ Len(boot[p].logged) = 1
    /\ boot' = [boot EXCEPT ![p].logged =
           Append(boot[p].logged, LoggerLog(boot[p].sensitiveFields, p, message, context))]
    /\ UNCHANGED <<clock, dtos, pipelineVars, exceptions, nestLog, heap, maskCall, environ, envFile, health>>

\* the flags as the operator sets them: unset, 'true', or another text
FlagSettings ==
    [USE_DATABASE : {Undefined, Str(<<"t","r","u","e">>), Str(<<"f","a","l","s","e">>)},
     USE_REDIS : {Undefined, Str(<<"t","r","u","e">>)},
     USE_VAULT : {Undefined, Str(<<"t","r","u","e">>)}]

\* the connection parameters of the database: none set, all set, all but the password
DatabaseSettings ==
    { <<>>,
      ("DB_NAME" :> Str(<<"o","r","d","e","r","s">>)) @@ ("DB_HOST" :> Str(<<"d","b",".","i","n","t","e","r","n","a","l">>))
        @@ ("DB_PORT" :> Str(<<"6","5","4","3">>)) @@ ("DB_USER" :> Str(<<"a","p","p">>))
        @@ ("DB_PASSWORD" :> Str(<<"s","3","c","r","e","t">>)),
      ("DB_NAME" :> Str(<<"o","r","d","e","r","s">>)) @@ ("DB_HOST" :> Str(<<"d","b",".","i","n","t","e","r","n","a","l">>))
        @@ ("DB_PORT" :> Str(<<"6","5","4","3">>)) @@ ("DB_USER" :> Str(<<"a","p","p">>)) }

\* LOG_SENSITIVE_FIELDS: unset, empty, one entry, two entries
SensitiveFieldSettings == {Undefined, Str(<<>>), Str(<<"t","o","k","e","n">>), Str(<<"e","m","a","i","l",",","a","p","i","K","e","y">>)}

\* the environments a process is started with: every setting of the flags with
\* every setting of the database parameters, and every setting of
\* LOG_SENSITIVE_FIELDS with the secret-store flag
Environments ==
    { ("USE_DATABASE" :> f.USE_DATABASE) @@ ("USE_REDIS" :> f.USE_REDIS)
        @@ ("USE_VAULT" :> f.USE_VAULT) @@ d @@ NoVariables :
      f \in FlagSettings, d \in DatabaseSettings }
    \cup
    { ("USE_VAULT" :> v) @@ ("LOG_SENSITIVE_FIELDS" :> l) @@ NoVariables :
      v \in {Undefined, Str(<<"t","r","u","e">>)}, l \in SensitiveFieldSettings }

\* the .env files: the flag of each optional service is left out or set to true
EnvFiles ==
    { ("USE_DATABASE" :> f.USE_DATABASE) @@ ("USE_REDIS" :> f.USE_REDIS) @@ NoVariables :
      f \in [USE_DATABASE : {Undefined, Str(<<"t","r","u","e">>)},
             USE_REDIS : {Undefined, Str(<<"t","r","u","e">>)}] }

\* what the secret store answers
VaultResponses ==
    { [kind |-> "bundle", data |-> ("DB_PASSWORD" :> Str(<<"v","a","u","l","t","-","p","w">>))],
      [kind |-> "bundle", data |-> ("DB_PASSWORD" :> Str(<<"r","o","t","a","t","e","d","-","p","w">>))
                                   @@ ("JWT_ACCESS_TOKEN_SECRET" :> Str(<<"v","a","u","l","t","-","j","w","t">>))],
      [kind |-> "empty"],
      [kind |-> "error", message |-> ConnectionRefused],
      [kind |-> "thrown"] }

\* a context whose keys are the default sensitive fields and two other fields
Credentials ==
    Obj((<<"p","a","s","s","w","o","r","d">> :> Str(<<"a","b","c","1","2","3">>)) @@ (<<"r","e","f","r","e","s","h","T","o","k","e","n">> :> Str(<<"r","1">>))
     @@ (<<"a","c","c","e","s","s","T","o","k","e","n">> :> Str(<<"a","1">>)) @@ (<<"a","p","i","K","e","y">> :> Str(<<"k","1">>))
     @@ (<<"s","e","c","r","e","t">> :> Str(<<"s","1">>)) @@ (<<"t","o","k","e","n">> :> Str(<<"t","1">>))
     @@ (<<"e","m","a","i","l">> :> Str(<<"a">>)) @@ (<<"n","a","m","e">> :> Str(<<"n">>)))

UserLoggedIn == <<"U","s","e","r"," ","l","o","g","g","e","d"," ","i","n">>

InitStartup ==
    /\ DtoInit
    /\ PipelineInit
    /\ TaxonomyInit
    /\ MaskIdle
    /\ environ \in Environments
    /\ envFile \in EnvFiles
    /\ boot = [p \in Startups |-> NotStarted]
    /\ health = [pc |-> "idle"]

NextStartup ==
    \/ \E p \in Startups : ImportEnv(p)
    \/ \E p \in Startups : \E fileRead \in FileRead(getEnvFilePath(boot[p].env)) :
          ForRoot(p, fileRead)
    \/ \E p \in Startups : Build(p)
    \/ \E p \in Startups : \E response \in VaultResponses \cup {Undefined} :
          LoadConfiguration(p, response)
    \/ \E p \in Startups : InitModules(p)
    \/ \E p \in Startups : LogLoaded(p)
    \/ \E p \in Startups : Log(p, UserLoggedIn, Credentials)

----------------------------------------------------------------------------
(* Health endpoints: HealthController *)

ConnectionLost == <<"c","o","n","n","e","c","t","i","o","n"," ","l","o","s","t">>

\* the outcome of awaiting a call: the value it resolved with; `threw` tells
\* whether it rejected instead
Resolved(value) == [threw |-> FALSE, value |-> value]

\* checkDatabase(): orm is whether MikroORM was injected, reachable whether
\* SELECT 1 resolves; the rejection of the probe is caught inside and reported
\* as 'down', so the call itself always resolves.
\* responseTime is Date.now() - start, taken as 0
checkDatabase(orm, reachable) ==
    IF ~orm THEN Resolved([status |-> "disabled"])
    ELSE IF reachable
         THEN Resolved([status |-> "up", responseTime |-> 0,
                        message |-> <<"D","a","t","a","b","a","s","e"," ","c","o","n","n","e","c","t","i","o","n"," ","s","u","c","c","e","s","s","f","u","l">>])
         ELSE Resolved([status |-> "down", responseTime |-> 0, message |-> ConnectionLost])

\* checkRedis(): the same for RedisService and ping()
checkRedis(redisService, reachable) ==
    IF ~redisService THEN Resolved([status |-> "disabled"])
    ELSE IF reachable
         THEN Resolved([status |-> "up", responseTime |-> 0,
                        message |-> <<"R","e","d","i","s"," ","c","o","n","n","e","c","t","i","o","n"," ","s","u","c","c","e","s","s","f","u","l">>])
         ELSE Resolved([status |-> "down", responseTime |-> 0, message |-> ConnectionLost])

\* serviceStatuses.includes(status)
includesStatus(serviceStatuses, status) ==
    \E i \in 1..Len(serviceStatuses) : serviceStatuses[i] = status

\* an overall status without the middle grade
overallStatus_NoDegraded(serviceStatuses) ==
    IF includesStatus(serviceStatuses, "down") THEN "unhealthy" ELSE "healthy"

\* hasDown ? (hasUp ? 'degraded' : 'unhealthy') : 'healthy'
overallStatus(serviceStatuses) ==
    LET hasDown == includesStatus(serviceStatuses, "down")
        hasUp == includesStatus(serviceStatuses, "up")
    IN  IF hasDown THEN (IF hasUp THEN "degraded" ELSE "unhealthy") ELSE "healthy"

\* HealthController.check() of controller h; timestamp, uptime and version are
\* left out of the answer
check(h) ==
    LET probesDatabase == h.env.USE_DATABASE /\ h.orm
        probesRedis == h.env.USE_REDIS /\ h.redisService
        dbStatus == checkDatabase(h.orm, h.databaseUp).value
        redisStatus == checkRedis(h.redisService, h.redisUp).value
        services ==
            (IF probesDatabase THEN "database" :> dbStatus ELSE <<>>)
            @@ (IF probesRedis THEN "redis" :> redisStatus ELSE <<>>)
            @@ (IF h.env.USE_VAULT
                THEN "vault" :> [status |-> "disabled",
                                 message |-> <<"V","a","u","l","t"," ","h","e","a","l","t","h"," ","c","h","e","c","k"," ","n","o","t"," ","i","m","p","l","e","m","e","n","t","e","d">>]
                ELSE <<>>)
        serviceStatuses ==
            (IF probesDatabase THEN <<dbStatus.status>> ELSE <<>>)
            \o (IF probesRedis THEN <<redisStatus.status>> ELSE <<>>)
    IN  [endpoint |-> "check", statusCode |-> 200,
         body |-> [status |-> overallStatus(serviceStatuses),
                   environment |-> h.env.NODE_ENV,
                   services |-> services]]

\* HealthController.readiness() of controller h: the try block awaits the checks
\* of the enabled services and does not look at what they resolve with; the
\* catch clause answers with the 503 HttpException when one of them rejected
readiness(h) ==
    LET awaited ==
            (IF h.env.USE_DATABASE /\ h.orm
             THEN {checkDatabase(h.orm, h.databaseUp)} ELSE {})
            \cup (IF h.env.USE_REDIS /\ h.redisService
                  THEN {checkRedis(h.redisService, h.redisUp)} ELSE {})
    IN  IF \E call \in awaited : call.threw
        THEN [endpoint |-> "readiness", statusCode |-> ReadinessException.status,
              body |-> ReadinessException.response]
        ELSE [endpoint |-> "readiness", statusCode |-> 200,
              body |-> Obj(k_status :> Str(<<"r","e","a","d","y">>))]

\* GET /health
Check ==
    /\ health.pc = "serving"
    /\ health' = [health EXCEPT !.answer = check(health)]
    /\ UNCHANGED <<clock, dtos, pipelineVars, exceptions, nestLog, heap, maskCall, environ, envFile, boot>>

\* GET /health/ready
Readiness ==
    /\ health.pc = "serving"
    /\ health' = [health EXCEPT !.answer = readiness(health)]
    /\ UNCHANGED <<clock, dtos, pipelineVars, exceptions, nestLog, heap, maskCall, environ, envFile, boot>>

\* a controller in a running application: the env object of its process, whether
\* MikroORM and RedisService were injected, and whether the services answer
InitHealth ==
    /\ DtoInit
    /\ PipelineInit
    /\ TaxonomyInit
    /\ MaskIdle
    /\ environ = <<>>
    /\ envFile = <<>>
    /\ boot = <<>>
    /\ \E e \in {env(x) : x \in Environments} :
       \E orm \in BOOLEAN, redisService \in BOOLEAN, databaseUp \in BOOLEAN, redisUp \in BOOLEAN :
          health = [pc |-> "serving", env |-> e, orm |-> orm, redisService |-> redisService,
                    databaseUp |-> databaseUp, redisUp |-> redisUp, answer |-> Undefined]

NextHealth == Check \/ Readiness

----------------------------------------------------------------------------
(* Specifications *)

\* the request pipeline
Init ==
    /\ clock = 0
    /\ dtos = [s \in Slots |-> NotBuilt]
    /\ PipelineInit
    /\ TaxonomyInit
    /\ MaskIdle
    /\ StartupIdle

Next ==
    \/ \E r \in Requests :
          /\ requests[r].pc = "new"
          /\ \E inbound \in Inbound : Intercept(r, inbound)
    \/ \E r \in Requests : HandlerReturns(r)
    \/ \E r \in Requests :
          /\ requests[r].pc = "handling"
          /\ \E exception \in Thrown(requests[r].url, clock) : HandlerThrows(r, exception)
    \/ \E r \in Requests : Catch(r)

Spec == Init /\ [][Next]_vars

\* raising sites building error records, the pipeline idle
InitDto ==
    /\ DtoInit
    /\ sensitiveFields = DefaultSensitiveFields
    /\ excludePaths = DefaultExcludePaths
    /\ requests = [r \in Requests |-> NoRequest]
    /\ log = <<>>
    /\ responses = [r \in Requests |-> <<>>]
    /\ uuids = 0
    /\ TaxonomyInit
    /\ MaskIdle
    /\ StartupIdle

SpecDto == InitDto /\ [][NextDto]_vars

\* raising sites constructing exceptions, the pipeline idle
SpecTaxonomy == InitDto /\ [][NextTaxonomy]_vars

\* callers of maskSensitiveData, the pipeline idle
SpecMask == InitMask /\ [][NextMask]_vars

\* startups of the process, the pipeline idle
SpecStartup == InitStartup /\ [][NextStartup]_vars

\* calls of the health endpoints, the pipeline idle
SpecHealth == InitHealth /\ [][NextHealth]_vars

----------------------------------------------------------------------------
(* Properties of the request pipeline (Spec) *)

Arrived(r) == requests[r].pc # "new"
Finished(r) == requests[r].pc = "done"
Returned(r) == requests[r].outcome = "returned"
Threw(r) == requests[r].outcome = "threw"

\* text `part` occurs in text `whole`
Occurs(part, whole) ==
    \E k \in 1..(Len(whole) - Len(part) + 1) : SubSeq(whole, k, k + Len(part) - 1) = part

\* the url contains an entry of the list
ContainsPath(paths, url) == \E i \in 1..Len(paths) : Occurs(paths[i], url)

\* the urls of the model that contain an entry of the default list (computed once)
UrlsExcludedByDefault == {url \in {UsersUrl, UsersQueryUrl} : ContainsPath(DefaultExcludePaths, url)}

\* the url of request r contains an entry of the exclusion list
MatchesExclusion(r) ==
    /\ Arrived(r)
    /\ IF requests[r].url \in {UsersUrl, UsersQueryUrl} /\ excludePaths = DefaultExcludePaths
       THEN requests[r].url \in UrlsExcludedByDefault
       ELSE ContainsPath(excludePaths, requests[r].url)

\* the positions in the log of the entries written while handling request r
EntriesOf(r) == {i \in 1..Len(log) : log[i].req = r}

IsIncoming(i) == log[i].message = IncomingRequest
IsCompleted(i) == log[i].message = RequestCompleted
IsFailed(i) == log[i].message = RequestFailed
IsCaught(i) ==
    /\ Len(log[i].message) >= Len(ExceptionCaught)
    /\ SubSeq(log[i].message, 1, Len(ExceptionCaught)) = ExceptionCaught

IncomingEvents(r) == {i \in EntriesOf(r) : IsIncoming(i)}
CompletedEvents(r) == {i \in EntriesOf(r) : IsCompleted(i)}
FailedEvents(r) == {i \in EntriesOf(r) : IsFailed(i)}
CaughtEntries(r) == {i \in EntriesOf(r) : IsCaught(i)}

\* the entries that report how request r ended
TerminalEvents(r) == CompletedEvents(r) \cup FailedEvents(r) \cup CaughtEntries(r)

\* the correlation id an entry carries
CorrelationIdOf(i) == Get(log[i].meta, k_correlationId)

\* every entry of request r carries the id assigned to r
CarryOwnId(r) ==
    /\ requests[r].correlationId.t = "string"
    /\ \A i \in EntriesOf(r) : CorrelationIdOf(i) = requests[r].correlationId

C2_NoEventsWhenExcluded ==
    \A r \in Requests : MatchesExclusion(r) => EntriesOf(r) = {}

\* C2 (amended): for a request whose url matches an exclusion entry the
\* interceptor writes nothing; no entry exists when the handler returned, and
\* when it threw the only entry is the one the exception filter writes, at
\* error level and without a correlation id
C2_OnlyTheFilterEntryWhenExcluded ==
    \A r \in Requests :
        MatchesExclusion(r) =>
            /\ IncomingEvents(r) \cup CompletedEvents(r) \cup FailedEvents(r) = {}
            /\ EntriesOf(r) = CaughtEntries(r)
            /\ Cardinality(EntriesOf(r)) = IF Finished(r) /\ Threw(r) THEN 1 ELSE 0
            /\ \A i \in EntriesOf(r) :
                 /\ log[i].level = "error"
                 /\ CorrelationIdOf(i) = Undefined
            /\ requests[r].correlationId = Undefined

\* an excluded request whose handler threw has been answered, next to an
\* excluded request whose handler returned
C2_Witness ==
    \E r, q \in Requests :
        /\ MatchesExclusion(r) /\ Finished(r) /\ Threw(r)
        /\ Cardinality(EntriesOf(r)) = 1
        /\ MatchesExclusion(q) /\ Finished(q) /\ Returned(q)
        /\ EntriesOf(q) = {}

\* C3: in the log, every completed / failed / exception entry that carries a
\* correlation id comes after the incoming event of its request, which carries that id; every entry
\* carries the id of the request it was written for; no two requests share an id
C3_IncomingFirstAndOwnId ==
    /\ \A i \in 1..Len(log) :
          ~IsIncoming(i) /\ CorrelationIdOf(i) # Undefined =>
              \E j \in 1..(i - 1) :
                  /\ log[j].req = log[i].req
                  /\ IsIncoming(j)
                  /\ CorrelationIdOf(j) = CorrelationIdOf(i)
    /\ \A i \in 1..Len(log) : CorrelationIdOf(i) = requests[log[i].req].correlationId
    /\ \A r, q \in Requests :
          /\ r # q
          /\ Arrived(r) /\ requests[r].correlationId # Undefined
          /\ Arrived(q)
          => requests[r].correlationId # requests[q].correlationId

\* the entries of two requests interleave: the second request's incoming event
\* lies between the first request's incoming event and its terminal events
C3_Witness ==
    \E i, j, k, l \in 1..Len(log) :
        /\ i < j /\ j < k /\ k < l
        /\ log[i].req # log[j].req
        /\ log[k].req = log[i].req /\ log[l].req = log[j].req
        /\ IsIncoming(i) /\ IsIncoming(j)
        /\ IsFailed(k) /\ IsCaught(l)

CanonicalFields == {k_status, k_message, k_code, k_target, k_timestamp, k_type, k_detail}

\* the response the filter wrote for request r
Answer(r) == responses[r][Len(responses[r])]

\* C4 as stated: every failed request is answered with a body of exactly the
\* fields status, message, code, target, timestamp, type, detail, and with the
\* HTTP status body.status
C4_CanonicalBodyForEveryFailure ==
    \A r \in Requests :
        Finished(r) /\ Threw(r) /\ responses[r] # <<>> =>
            /\ Answer(r).body.t = "object"
            /\ ObjectKeys(Answer(r).body) = CanonicalFields
            /\ Get(Answer(r).body, k_status) = Num(Answer(r).status)

\* C5: the filter answers every exception it is handed exactly once: for
\* every thrown value catch() computes a status and a body, writes one
\* response and one log entry holding the one record it built, and no request
\* is ever answered twice
C5_AnsweredExactlyOnce ==
    \A r \in Requests :
        /\ Len(responses[r]) <= 1
        /\ requests[r].pc = "filter" =>
             /\ responses[r] = <<>>
             /\ statusOf(requests[r].thrown) \in 100..599
             /\ exceptionResponseOf(requests[r].thrown).t = "object"
        /\ Finished(r) /\ Threw(r) =>
             /\ Len(responses[r]) = 1
             /\ Answer(r).by = "filter"
             /\ Answer(r).body.t = "object"
             /\ Cardinality(CaughtEntries(r)) = 1
             /\ \A i \in CaughtEntries(r) : Get(log[i].meta, k_exception).t = "object"

\* a value that is no error was thrown and has been answered once, with 500
C5_Witness ==
    \E r \in Requests :
        /\ Finished(r) /\ Threw(r)
        /\ requests[r].thrown.t = "string"
        /\ Len(responses[r]) = 1
        /\ Answer(r).status = 500

\* C6 as stated: a thrown value without an ErrorRecord payload (a runtime
\* error, or a value that is no error) is answered with a record of status 500,
\* type INTERNAL_SERVER_ERROR, target [] and detail the error's message, or
\* "An unexpected error occurred" for a value that is no error
C6_UnknownThrowsBecomeErrorRecords ==
    \A r \in Requests :
        /\ Finished(r) /\ Threw(r) /\ responses[r] # <<>>
        /\ ~(requests[r].thrown.t = "error" /\ requests[r].thrown.class = "HttpException")
        => /\ Get(Answer(r).body, k_status) = Num(500)
           /\ Get(Answer(r).body, k_type) = Str(INTERNAL_SERVER_ERROR)
           /\ Get(Answer(r).body, k_target) = Arr(<<>>)
           /\ Get(Answer(r).body, k_detail) =
                IF requests[r].thrown.t = "error"
                THEN Str(requests[r].thrown.message)
                ELSE Str(<<"A","n"," ","u","n","e","x","p","e","c","t","e","d"," ","e","r","r","o","r"," ","o","c","c","u","r","r","e","d">>)

\* the thrown value is NotFoundException("User", 42)
ThrewNotFound(r) ==
    /\ Threw(r)
    /\ requests[r].thrown.t = "error"
    /\ requests[r].thrown.name = <<"N","o","t","F","o","u","n","d","E","x","c","e","p","t","i","o","n">>

\* C7: a taxonomy exception is answered with the record built when it was
\* constructed, field for field, and with that record's status as HTTP status
C7_TaxonomyRecordVerbatim ==
    \A r \in Requests :
        Finished(r) /\ ThrewNotFound(r) =>
            /\ Len(responses[r]) = 1
            /\ Answer(r).body = requests[r].thrown.response
            /\ ObjectKeys(Answer(r).body) = CanonicalFields
            /\ Get(Answer(r).body, k_status) = Num(404)
            /\ Get(Answer(r).body, k_code) = Str(NOT_FOUND)
            /\ Get(Answer(r).body, k_type) = Str(NOT_FOUND)
            /\ Get(Answer(r).body, k_target) = Arr(<<Str(<<"4","2">>)>>)
            /\ Get(Answer(r).body, k_message) = Str(<<"n","o","t"," ","f","o","u","n","d"," ","e","r","r","o","r","(","s",")"," ","i","n"," ","4","2">>)
            /\ Get(Answer(r).body, k_detail) = Str(<<"U","s","e","r"," ","w","i","t","h"," ","i","d","e","n","t","i","f","i","e","r"," ","4","2"," ","n","o","t"," ","f","o","u","n","d">>)
            /\ Get(Answer(r).body, k_timestamp).t = "date"
            /\ Answer(r).status = 404

\* a taxonomy exception has been answered, and the copy of its record in the
\* log differs from the record (the logger's copy lost the timestamp)
C7_Witness ==
    \E r \in Requests :
        /\ Finished(r) /\ ThrewNotFound(r)
        /\ Answer(r).body = requests[r].thrown.response
        /\ \E i \in CaughtEntries(r) :
              /\ Get(log[i].meta, k_exception) # Answer(r).body
              /\ Get(Get(log[i].meta, k_exception), k_timestamp) = Obj(<<>>)

\* every text in a JavaScript value: its strings and the keys of its objects
RECURSIVE TextsOf(_)
TextsOf(x) ==
    IF x.t = "string" THEN {x.v}
    ELSE IF x.t = "array" THEN UNION {TextsOf(x.v[i]) : i \in 1..Len(x.v)}
    ELSE IF x.t = "object"
    THEN DOMAIN x.v \cup UNION {TextsOf(x.v[key]) : key \in DOMAIN x.v}
    ELSE {}

StackFrame == <<" "," "," "," ","a","t"," ">>

\* C8: no text of a response body holds the stack of the thrown value or a
\* stack frame; the stack is in the trace of the log entries
C8_NoStackInResponseBody ==
    \A r \in Requests :
        \A n \in 1..Len(responses[r]) :
            \A text \in TextsOf(responses[r][n].body) :
                /\ ~Occurs(StackFrame, text)
                /\ requests[r].thrown.t = "error" => ~Occurs(requests[r].thrown.stack, text)

\* a runtime error was answered: its stack is the trace of both error entries
\* and the body holds its message
C8_Witness ==
    \E r \in Requests :
        /\ Finished(r) /\ Threw(r)
        /\ requests[r].thrown.t = "error" /\ requests[r].thrown.class = "Error"
        /\ Occurs(StackFrame, requests[r].thrown.stack)
        /\ Get(Answer(r).body, k_message) = Str(requests[r].thrown.message)
        /\ \E i \in FailedEvents(r) : Get(log[i].meta, k_trace) = Str(requests[r].thrown.stack)
        /\ \E i \in CaughtEntries(r) : Get(log[i].meta, k_trace) = Str(requests[r].thrown.stack)

----------------------------------------------------------------------------
(* Properties of the error record (SpecDto) *)

BuiltSlots == {s \in Slots : dtos[s].built}

\* the words of a kind: VALIDATION is "validation", NOT_FOUND is "not found"
KindWords(type) ==
    IF type = VALIDATION THEN <<"v","a","l","i","d","a","t","i","o","n">>
    ELSE IF type = NOT_FOUND THEN <<"n","o","t"," ","f","o","u","n","d">>
    ELSE <<"?">>

\* the words of the HttpStatus name of a status; "unknown" without a name
StatusWords(status) ==
    IF status = 400 THEN <<"b","a","d"," ","r","e","q","u","e","s","t">>
    ELSE IF status = 404 THEN <<"n","o","t"," ","f","o","u","n","d">>
    ELSE <<"u","n","k","n","o","w","n">>

\* the entries that hold a character other than white space
NonBlank(columns) ==
    SelectSeq(columns, LAMBDA col : \E i \in 1..Len(col) : col[i] \notin WhiteSpace)

\* the items, separated by ", "
RECURSIVE CommaSeparated(_)
CommaSeparated(items) ==
    IF Len(items) = 0 THEN <<>>
    ELSE IF Len(items) = 1 THEN items[1]
    ELSE CommaSeparated(SubSeq(items, 1, Len(items) - 1)) \o <<","," ">> \o items[Len(items)]

MessageOf(s) == Get(dtos[s].dto, k_message)

\* C9 as stated: the message is "{kind words} error(s)" when fields is empty and
\* "{kind words} error(s) in {fields joined by ', '}" otherwise
C9_MessageFromKindAndFields ==
    \A s \in BuiltSlots :
        MessageOf(s) =
            IF dtos[s].columns = <<>>
            THEN Str(KindWords(dtos[s].type) \o <<" ","e","r","r","o","r","(","s",")">>)
            ELSE Str(KindWords(dtos[s].type) \o <<" ","e","r","r","o","r","(","s",")"," ","i","n"," ">>
                     \o CommaSeparated(dtos[s].columns))

\* C9 (amended): the message is "{status words} error(s)" when no field is
\* left after dropping the blank ones, and "{status words} error(s) in {the
\* non-blank fields joined by ', '}" otherwise; the status words are the
\* HttpStatus name of the status in lower case with spaces, "unknown" for a
\* status without a name; the kind does not enter the message
C9_MessageFromStatusAndTarget ==
    \A s \in BuiltSlots :
        MessageOf(s) =
            IF NonBlank(dtos[s].columns) = <<>>
            THEN Str(StatusWords(dtos[s].status) \o <<" ","e","r","r","o","r","(","s",")">>)
            ELSE Str(StatusWords(dtos[s].status) \o <<" ","e","r","r","o","r","(","s",")"," ","i","n"," ">>
                     \o CommaSeparated(NonBlank(dtos[s].columns)))

\* a validation failure of status 400 whose fields hold a name and a blank entry
C9_Witness ==
    \E s \in BuiltSlots :
        /\ dtos[s].status = 400 /\ dtos[s].type = VALIDATION
        /\ dtos[s].columns = <<email, <<" ">> >>
        /\ MessageOf(s) = Str(<<"b","a","d"," ","r","e","q","u","e","s","t"," ","e","r","r","o","r","(","s",")"," ","i","n"," ","e","m","a","i","l">>)

\* C10: two records of equal status and equal target have equal messages,
\* whatever kind and detail their raising sites gave
C10_MessageFromStatusAndTargetAlone ==
    \A a, b \in BuiltSlots :
        /\ Get(dtos[a].dto, k_status) = Get(dtos[b].dto, k_status)
        /\ Get(dtos[a].dto, k_target) = Get(dtos[b].dto, k_target)
        => MessageOf(a) = MessageOf(b)

\* two records of equal status and target that differ in kind, detail and fields
C10_Witness ==
    /\ BuiltSlots = Slots
    /\ dtos["a"].type # dtos["b"].type
    /\ dtos["a"].detail # dtos["b"].detail
    /\ dtos["a"].columns # dtos["b"].columns
    /\ Get(dtos["a"].dto, k_status) = Get(dtos["b"].dto, k_status)
    /\ Get(dtos["a"].dto, k_target) = Get(dtos["b"].dto, k_target)
    /\ Get(dtos["a"].dto, k_target) # Arr(<<>>)
    /\ MessageOf("a") = MessageOf("b")

\* the entries of a sequence, each kept at its first occurrence only
RECURSIVE WithoutDuplicates(_)
WithoutDuplicates(items) ==
    IF Len(items) = 0 THEN <<>>
    ELSE LET front == WithoutDuplicates(SubSeq(items, 1, Len(items) - 1))
         IN  IF \E i \in 1..(Len(items) - 1) : items[i] = items[Len(items)]
             THEN front ELSE Append(front, items[Len(items)])

\* the field names of a record's target, as texts
TargetOf(s) == [i \in 1..Len(Get(dtos[s].dto, k_target).v) |-> Get(dtos[s].dto, k_target).v[i].v]

\* C11 as stated: the target is the given field names in their order, without
\* the blank entries and without duplicates
C11_TargetWithoutBlanksAndDuplicates ==
    \A s \in BuiltSlots : TargetOf(s) = WithoutDuplicates(NonBlank(dtos[s].columns))

\* C11 (amended): the target is the given field names in their order without
\* the blank (empty or white-space only) entries; an entry that occurs twice
\* occurs twice in the target, and no entry is trimmed or reordered
C11_TargetWithoutBlanks ==
    \A s \in BuiltSlots :
        /\ Get(dtos[s].dto, k_target).t = "array"
        /\ TargetOf(s) = NonBlank(dtos[s].columns)

\* one record built from a field named twice, one from a blank entry and a name
C11_Witness ==
    \E s, t \in BuiltSlots :
        /\ dtos[s].columns = <<email, email>>
        /\ TargetOf(s) = <<email, email>>
        /\ dtos[t].columns = <<<<" ">>, id>>
        /\ TargetOf(t) = <<id>>

----------------------------------------------------------------------------
(* Properties of the taxonomy's exceptions (SpecTaxonomy) *)

Constructions == 1..Len(exceptions)

\* the record the exception constructed as number i holds
RecordOf(i) == exceptions[i].exception.response

\* the status each variant is bound to
FixedStatus(variant) ==
    IF variant = "NotFound" THEN 404
    ELSE IF variant = "Unauthorized" THEN 401
    ELSE IF variant = "Forbidden" THEN 403
    ELSE IF variant = "BadRequest" THEN 400
    ELSE 500

\* the kind each variant is bound to; BadRequest takes the caller's
FixedKind(i) ==
    IF exceptions[i].variant = "NotFound" THEN <<"N","O","T","_","F","O","U","N","D">>
    ELSE IF exceptions[i].variant = "Unauthorized" THEN <<"U","N","A","U","T","H","O","R","I","Z","E","D">>
    ELSE IF exceptions[i].variant = "Forbidden" THEN <<"F","O","R","B","I","D","D","E","N">>
    ELSE IF exceptions[i].variant = "BadRequest" THEN exceptions[i].args[2].v
    ELSE <<"I","N","T","E","R","N","A","L","_","S","E","R","V","E","R","_","E","R","R","O","R">>

\* C12: every taxonomy exception holds one ErrorRecord whose status and type
\* are the pair its variant is bound to (BadRequest: 400 and the caller's
\* kind), Unauthorized's detail is "Authentication required" when none was
\* given, and the exception's own HTTP status is the record's status
C12_VariantsBoundToStatusAndKind ==
    \A i \in Constructions :
        /\ RecordOf(i).t = "object"
        /\ ObjectKeys(RecordOf(i)) = CanonicalFields
        /\ Get(RecordOf(i), k_status) = Num(FixedStatus(exceptions[i].variant))
        /\ Get(RecordOf(i), k_type) = Str(FixedKind(i))
        /\ exceptions[i].exception.status = FixedStatus(exceptions[i].variant)
        /\ Num(exceptions[i].exception.status) = Get(RecordOf(i), k_status)
        /\ exceptions[i].variant = "Unauthorized" =>
             Get(RecordOf(i), k_detail) =
                 IF exceptions[i].args[1] = Undefined
                 THEN Str(<<"A","u","t","h","e","n","t","i","c","a","t","i","o","n"," ","r","e","q","u","i","r","e","d">>)
                 ELSE exceptions[i].args[1]

\* an Unauthorized built without a detail next to a DatabaseOperation
C12_Witness ==
    \E i, j \in Constructions :
        /\ exceptions[i].variant = "Unauthorized"
        /\ exceptions[i].args[1] = Undefined
        /\ Get(RecordOf(i), k_detail) = Str(<<"A","u","t","h","e","n","t","i","c","a","t","i","o","n"," ","r","e","q","u","i","r","e","d">>)
        /\ exceptions[i].exception.status = 401
        /\ exceptions[j].variant = "DatabaseOperation"
        /\ Get(RecordOf(j), k_type) = Str(<<"I","N","T","E","R","N","A","L","_","S","E","R","V","E","R","_","E","R","R","O","R">>)
        /\ exceptions[j].exception.status = 500

\* the identifier as text
IdentifierText(identifier) ==
    IF identifier = Num(42) THEN <<"4","2">>
    ELSE IF identifier = Num(7) THEN <<"7">>
    ELSE identifier.v

IsBlank(text) == \A k \in 1..Len(text) : text[k] \in WhiteSpace

\* the fields of the record of NotFound(resource, identifier) other than its target and message
NotFoundRecordBase(i) ==
    LET resource == exceptions[i].args[1].v
        text == IdentifierText(exceptions[i].args[2])
    IN  /\ Get(RecordOf(i), k_status) = Num(404)
        /\ Get(RecordOf(i), k_type) = Str(<<"N","O","T","_","F","O","U","N","D">>)
        /\ Get(RecordOf(i), k_detail) =
             Str(resource \o <<" ","w","i","t","h"," ","i","d","e","n","t","i","f","i","e","r"," ">> \o text \o <<" ","n","o","t"," ","f","o","u","n","d">>)

\* C13 as stated: for every resource and identifier, NotFound yields status 404,
\* type NOT_FOUND, target [identifier as text], message "not found error(s) in
\* <identifier>" and detail "<resource> with identifier <identifier> not found"
C13_NotFoundRecordForEveryIdentifier ==
    \A i \in Constructions :
        exceptions[i].variant = "NotFound" =>
            LET text == IdentifierText(exceptions[i].args[2])
            IN  /\ NotFoundRecordBase(i)
                /\ Get(RecordOf(i), k_target) = Arr(<<Str(text)>>)
                /\ Get(RecordOf(i), k_message) = Str(<<"n","o","t"," ","f","o","u","n","d"," ","e","r","r","o","r","(","s",")"," ","i","n"," ">> \o text)

\* C13 (amended): NotFound yields status 404, type NOT_FOUND and detail
\* "<resource> with identifier <identifier> not found"; for an identifier
\* whose text is not blank the target is [identifier as text] and the message
\* "not found error(s) in <identifier>", for a blank (empty or white-space
\* only) identifier the target is [] and the message "not found error(s)"
C13_NotFoundRecord ==
    \A i \in Constructions :
        exceptions[i].variant = "NotFound" =>
            LET text == IdentifierText(exceptions[i].args[2])
            IN  /\ NotFoundRecordBase(i)
                /\ ~IsBlank(text) =>
                     /\ Get(RecordOf(i), k_target) = Arr(<<Str(text)>>)
                     /\ Get(RecordOf(i), k_message) = Str(<<"n","o","t"," ","f","o","u","n","d"," ","e","r","r","o","r","(","s",")"," ","i","n"," ">> \o text)
                /\ IsBlank(text) =>
                     /\ Get(RecordOf(i), k_target) = Arr(<<>>)
                     /\ Get(RecordOf(i), k_message) = Str(<<"n","o","t"," ","f","o","u","n","d"," ","e","r","r","o","r","(","s",")">>)

\* NotFound("User", 42) next to a NotFound with a white-space identifier
C13_Witness ==
    \E i, j \in Constructions :
        /\ exceptions[i].variant = "NotFound"
        /\ exceptions[i].args = <<Str(User), Num(42)>>
        /\ Get(RecordOf(i), k_target) = Arr(<<Str(<<"4","2">>)>>)
        /\ Get(RecordOf(i), k_message) = Str(<<"n","o","t"," ","f","o","u","n","d"," ","e","r","r","o","r","(","s",")"," ","i","n"," ","4","2">>)
        /\ Get(RecordOf(i), k_detail) = Str(<<"U","s","e","r"," ","w","i","t","h"," ","i","d","e","n","t","i","f","i","e","r"," ","4","2"," ","n","o","t"," ","f","o","u","n","d">>)
        /\ exceptions[j].variant = "NotFound"
        /\ exceptions[j].args[2] = Str(<<" ">>)
        /\ Get(RecordOf(j), k_target) = Arr(<<>>)

\* the entries the constructor of exception i wrote on Nest's Logger
ConstructorEntries(i) == {n \in 1..Len(nestLog) : nestLog[n].by = i}

\* C14: every DatabaseOperation exception has exactly one error-level entry,
\* naming the operation and the underlying message, from the moment it is
\* constructed, whether it is held, thrown, caught or discarded afterwards;
\* the other variants write none
C14_LoggedAtConstruction ==
    \A i \in Constructions :
        IF exceptions[i].variant = "DatabaseOperation"
        THEN /\ Cardinality(ConstructorEntries(i)) = 1
             /\ \A n \in ConstructorEntries(i) :
                  /\ nestLog[n].level = "error"
                  /\ Occurs(exceptions[i].args[2].v, nestLog[n].message)
                  /\ Occurs(exceptions[i].args[1].message, nestLog[n].message)
        ELSE ConstructorEntries(i) = {}

\* one DatabaseOperation exception was discarded, another thrown and swallowed,
\* and the log holds the entry of each
C14_Witness ==
    \E i, j \in Constructions :
        /\ exceptions[i].variant = "DatabaseOperation" /\ exceptions[i].fate = "discarded"
        /\ exceptions[j].variant = "DatabaseOperation" /\ exceptions[j].fate = "caught"
        /\ \E n \in ConstructorEntries(i) :
              nestLog[n].message = <<"D","a","t","a","b","a","s","e"," ","o","p","e","r","a","t","i","o","n"," ","c","r","e","a","t","e","U","s","e","r"," ","f","a","i","l","e","d",":"," ","c","o","n","n","e","c","t","i","o","n"," ","l","o","s","t">>
        /\ ConstructorEntries(j) # {}

----------------------------------------------------------------------------
(* Properties of maskSensitiveData (SpecMask) *)

\* the pairs of characters that are the same letter, in either case
SameLetters ==
    {<<UpperCaseLetters[j], LowerCaseLetters[j]>> : j \in 1..Len(UpperCaseLetters)}
    \cup {<<LowerCaseLetters[j], UpperCaseLetters[j]>> : j \in 1..Len(UpperCaseLetters)}

SameLetter(a, b) == a = b \/ <<a, b>> \in SameLetters

\* text `part` occurs in text `whole` when the case of letters is ignored
OccursIgnoringCase(part, whole) ==
    \E k \in 1..(Len(whole) - Len(part) + 1) :
        \A j \in 1..Len(part) : SameLetter(whole[k + j - 1], part[j])

\* the key contains an entry of the list
ContainsEntry(fields, key) ==
    \E i \in 1..Len(fields) : OccursIgnoringCase(fields[i], key)

\* the keys the pipeline's log entries and bodies are made of, and those of
\* them that contain an entry of the default list (computed once)
LoggedKeys ==
    {k_method, k_url, k_body, k_correlationId, k_responseTime, k_path, k_exception,
     k_trace, k_statusCode, k_error, k_status, k_message, k_code, k_target,
     k_timestamp, k_type, k_detail, email, password}
SensitiveLoggedKeys == {key \in LoggedKeys : ContainsEntry(DefaultSensitiveFields, key)}

\* the key contains a configured sensitive entry
SensitiveKey(fields, key) ==
    IF key \in LoggedKeys /\ fields = DefaultSensitiveFields
    THEN key \in SensitiveLoggedKeys
    ELSE ContainsEntry(fields, key)

Marker == Str(<<"*","*","*","M","A","S","K","E","D","*","*","*">>)

\* the argument, the result and the result of masking the result, as values
Argument == load(heap, maskCall.data)
Result == load(heap, maskCall.result)
ResultAgain == load(heap, maskCall.again)

\* the value maskSensitiveData returns on the heap is the value the pipeline's
\* maskSensitiveData computes from the argument's value
MaskFormsAgree ==
    maskCall.pc \in {"masked", "again"} =>
        Result = maskSensitiveData(sensitiveFields, maskCall.given)

\* C15: masking the result of mask changes nothing: mask(mask(x)) = mask(x)
C15_MaskIdempotent ==
    maskCall.pc = "again" => ResultAgain = Result

\* a value with a redacted nested key was masked twice
C15_Witness ==
    /\ maskCall.pc = "again"
    /\ maskCall.given = Obj((password :> Str(<<"a","b","c","1","2","3">>)) @@ (nested :> Obj(token :> Str(<<"x","y","z">>))))
    /\ Result = Obj((password :> Marker) @@ (nested :> Obj(token :> Marker)))
    /\ ResultAgain = Result

\* C16: after mask returns, and after its result was masked again, the
\* argument and everything nested in it holds the values it held before
C16_ArgumentNotMutated ==
    maskCall.pc \in {"masked", "again"} => Argument = maskCall.given

\* a key two levels down was redacted in the result and is intact in the argument
C16_Witness ==
    /\ maskCall.pc = "masked"
    /\ maskCall.given = Obj((password :> Str(<<"a","b","c","1","2","3">>)) @@ (nested :> Obj(token :> Str(<<"x","y","z">>))))
    /\ Get(Get(Result, nested), token) = Marker
    /\ Get(Get(Argument, nested), token) = Str(<<"x","y","z">>)
    /\ Get(Argument, password) = Str(<<"a","b","c","1","2","3">>)
    /\ maskCall.result # maskCall.data

\* every sensitive key of v, at any depth, has the marker as its value
RECURSIVE AllRedacted(_, _)
AllRedacted(fields, v) ==
    IF v.t = "array" THEN \A i \in 1..Len(v.v) : AllRedacted(fields, v.v[i])
    ELSE IF v.t = "object"
    THEN \A key \in DOMAIN v.v :
            IF SensitiveKey(fields, key) THEN v.v[key] = Marker
            ELSE AllRedacted(fields, v.v[key])
    ELSE TRUE

\* C17: in the result of mask, every key that contains a configured entry,
\* whatever the case of its letters, has the value "***MASKED***", at every
\* depth, inside objects and arrays, whatever value it had
C17_SensitiveKeysRedacted ==
    maskCall.pc \in {"masked", "again"} => AllRedacted(sensitiveFields, Result)

\* key "Password", holding null in an object inside an array, is masked for
\* the entry "password"
C17_Witness ==
    /\ maskCall.pc = "masked"
    /\ sensitiveFields = DefaultSensitiveFields
    /\ maskCall.given = Arr(<<Str(<<"a","b","c","1","2","3">>), Obj(Password :> Null)>>)
    /\ Result = Arr(<<Str(<<"a","b","c","1","2","3">>), Obj(Password :> Marker)>>)

\* y keeps what x holds outside the values of sensitive keys
RECURSIVE Preserved(_, _, _)
Preserved(fields, x, y) ==
    IF x.t = "array"
    THEN /\ y.t = "array"
         /\ Len(y.v) = Len(x.v)
         /\ \A i \in 1..Len(x.v) : Preserved(fields, x.v[i], y.v[i])
    ELSE IF x.t = "object"
    THEN /\ y.t = "object"
         /\ DOMAIN y.v = DOMAIN x.v
         /\ \A key \in DOMAIN x.v :
               ~SensitiveKey(fields, key) => Preserved(fields, x.v[key], y.v[key])
    ELSE y = x

\* C18 as stated: mask keeps the length and order of sequences, the key set
\* of mappings, and every scalar (text, number, instant) or null that is not
\* the value of a sensitive key
C18_UnredactedPreserved ==
    maskCall.pc \in {"masked", "again"} => Preserved(sensitiveFields, maskCall.given, Result)

----------------------------------------------------------------------------
(* Properties of what the pipeline logs (Spec) *)

\* the body of a request as the log may show it: the values of its sensitive
\* keys replaced by the marker
RedactedBody(body) ==
    IF body.t = "object"
    THEN Obj([key \in DOMAIN body.v |->
               IF SensitiveKey(sensitiveFields, key) THEN Marker ELSE body.v[key]])
    ELSE body

\* C19: no log entry of the pipeline holds, at any depth of its context, a
\* sensitive key with a value other than the marker, and the body of the
\* 'Incoming request' entry is the masked body of the request; stated of the
\* entry written last, entries being appended and never rewritten
C19_LoggedContextsMasked ==
    log # <<>> =>
        /\ AllRedacted(sensitiveFields, log[Len(log)].meta)
        /\ IsIncoming(Len(log)) =>
             Get(log[Len(log)].meta, k_body) = RedactedBody(requests[log[Len(log)].req].body)

\* a request whose body holds a password was logged: the entry shows the
\* marker, the request still holds the password
C19_Witness ==
    \E r \in Requests : \E i \in IncomingEvents(r) :
        /\ Get(requests[r].body, password) = Str(<<"a","b","c","1","2","3">>)
        /\ Get(Get(log[i].meta, k_body), password) = Marker
        /\ Get(Get(log[i].meta, k_body), email) = Get(requests[r].body, email)

\* a request outside the exclusion list whose handler's exception was answered
FailedAndAnswered(r) == Finished(r) /\ Threw(r) /\ ~MatchesExclusion(r)

LoggedBody(body) ==
    Obj([key \in DOMAIN body.v |->
          IF body.v[key].t = "date" THEN Obj(<<>>) ELSE body.v[key]])

----------------------------------------------------------------------------
(* Properties of the Configuration Assembler (SpecStartup) *)

\* the root module's imports have been evaluated up to ConfigModule.forRoot
Configured(p) == boot[p].pc \notin {"none", "imported"}

\* the root module's imports have been evaluated up to build()
Assembled(p) == boot[p].pc \notin {"none", "imported", "configured"}

\* position of a loader in a list of loaders, 0 when it is not in the list
PositionOf(loader, loaders) ==
    IF \E i \in 1..Len(loaders) : loaders[i] = loader
    THEN CHOOSE i \in 1..Len(loaders) : loaders[i] = loader
    ELSE 0

\* C21: for every combination of the flags USE_VAULT, USE_DATABASE, USE_REDIS of
\* the env object, createLoaders returns [vaultLoader if USE_VAULT] + [logger, jwt]
\* + [database if USE_DATABASE] + [redis if USE_REDIS] in this order: the
\* secret-store loader is first whenever present, logger and jwt are always
\* present, and no loader of a disabled service is present
C21_LoadersInOrder ==
    \A p \in Startups :
        Configured(p) =>
            LET e == boot[p].env
                loaders == boot[p].loaders
            IN  /\ loaders = (IF e.USE_VAULT THEN <<"vaultLoader">> ELSE <<>>)
                               \o <<"loggerConfig", "jwtConfig">>
                               \o (IF e.USE_DATABASE THEN <<"databaseConfig">> ELSE <<>>)
                               \o (IF e.USE_REDIS THEN <<"redisConfig">> ELSE <<>>)
                /\ e.USE_VAULT <=> PositionOf("vaultLoader", loaders) = 1
                /\ ~e.USE_VAULT => PositionOf("vaultLoader", loaders) = 0
                /\ PositionOf("loggerConfig", loaders) > 0
                /\ PositionOf("jwtConfig", loaders) = PositionOf("loggerConfig", loaders) + 1
                /\ e.USE_DATABASE <=> PositionOf("databaseConfig", loaders) > 0
                /\ e.USE_REDIS <=> PositionOf("redisConfig", loaders) > 0

\* the flags USE_VAULT=true, USE_DATABASE=true, USE_REDIS unset: the secret-store
\* loader, then logger, jwt and database
C21_Witness ==
    /\ Configured(1)
    /\ boot[1].env.USE_VAULT /\ boot[1].env.USE_DATABASE /\ ~boot[1].env.USE_REDIS
    /\ boot[1].loaders = <<"vaultLoader", "loggerConfig", "jwtConfig", "databaseConfig">>

\* the flag of process.env is 'true' in startup p
FlagSet(p, flag) == boot[p].processEnv[flag] = Str(<<"t","r","u","e">>)

\* C22: build() returns the modules of exactly those registered strategies whose
\* flag is set when build() runs, in registration order: the logging module
\* always, then the database module iff USE_DATABASE is 'true', then the cache
\* module iff USE_REDIS is 'true'
C22_ActivatedModules ==
    \A p \in Startups :
        Assembled(p) =>
            LET modules == boot[p].modules
            IN  /\ modules = <<"LoggerModule">>
                               \o (IF FlagSet(p, "USE_DATABASE") THEN <<"MikroOrmModule">> ELSE <<>>)
                               \o (IF FlagSet(p, "USE_REDIS") THEN <<"RedisModule">> ELSE <<>>)
                /\ PositionOf("LoggerModule", modules) = 1
                /\ FlagSet(p, "USE_DATABASE") <=> PositionOf("MikroOrmModule", modules) = 2
                /\ FlagSet(p, "USE_REDIS") <=> PositionOf("RedisModule", modules) > 1
                /\ \A i \in 1..Len(modules) :
                       \E j \in 1..Len(Registered) : modules[i] = create(Registered[j])

\* USE_VAULT=true, USE_DATABASE=true and no cache flag, started twice: the
\* activated list holds the logging and the database module and not the cache module
C22_Witness ==
    /\ Assembled(1) /\ Assembled(2)
    /\ environ["USE_DATABASE"] = Str(<<"t","r","u","e">>) /\ environ["USE_VAULT"] = Str(<<"t","r","u","e">>)
    /\ boot[1].modules = <<"LoggerModule", "MikroOrmModule">>

\* the short names getLoadedModules reports for a list of activated modules
ReportedAs(modules) ==
    [i \in 1..Len(modules) |->
        CASE modules[i] = "LoggerModule" -> <<"L","o","g","g","e","r">>
          [] modules[i] = "MikroOrmModule" -> <<"D","a","t","a","b","a","s","e">>
          [] modules[i] = "RedisModule" -> <<"R","e","d","i","s">>]

\* C23: the activation decision of each strategy is fixed at process start:
\* shouldLoad() returns at every moment of the process what it returns for the
\* environment the process was started with, and the list getLoadedModules()
\* reports after the application was created is the list build() activated
C23_ActivationFixedAtStart ==
    \A p \in Startups :
        /\ boot[p].pc # "none" =>
               \A i \in 1..Len(Registered) :
                   shouldLoad(Registered[i], boot[p].processEnv)
                       = shouldLoad(Registered[i], environ)
        /\ boot[p].pc = "listening" => boot[p].loadedModules = ReportedAs(boot[p].modules)

\* NestFactory.create resolved in startup p
Created(p) == boot[p].pc \in {"created", "listening"}

\* the connection parameters the database needs
RequiredParameters == {"DB_NAME", "DB_HOST", "DB_PORT", "DB_USER", "DB_PASSWORD"}

\* no configuration source of startup p holds the variable: process.env (with the
\* entries of the .env file that was read) does not, and the secret store's
\* bundle does not
Unresolved(p, variable) ==
    /\ boot[p].processEnv[variable] \in {Undefined, Str(<<>>)}
    /\ ~(/\ boot[p].response # Undefined
         /\ boot[p].response.kind = "bundle"
         /\ variable \in DOMAIN boot[p].response.data)

\* the error names the database configuration
Descriptive(error) == error # Undefined /\ Occurs(<<"D","a","t","a","b","a","s","e"," ","c","o","n","f","i","g","u","r","a","t","i","o","n">>, error.message)

ValueOr(p, variable, default) ==
    IF boot[p].processEnv[variable] \in {Undefined, Str(<<>>)} THEN default
    ELSE boot[p].processEnv[variable].v

----------------------------------------------------------------------------
(* Properties of the health endpoints (SpecHealth) *)

\* the services the controller probes: enabled by the flag and injected
Probed ==
    (IF health.env.USE_DATABASE /\ health.orm THEN {"database"} ELSE {})
    \cup (IF health.env.USE_REDIS /\ health.redisService THEN {"redis"} ELSE {})

\* the probed services that do not answer, and those that do
ProbedDown ==
    {service \in Probed : IF service = "database" THEN ~health.databaseUp ELSE ~health.redisUp}
ProbedUp == Probed \ ProbedDown

Answered(endpoint) == health.answer # Undefined /\ health.answer.endpoint = endpoint

C26_NotReadyWhenAProbeFails ==
    Answered("readiness") =>
        /\ ProbedDown = {} =>
               /\ health.answer.statusCode = 200
               /\ health.answer.body = Obj(k_status :> Str(<<"r","e","a","d","y">>))
        /\ ProbedDown # {} =>
               /\ health.answer.statusCode = 503
               /\ Get(health.answer.body, k_status) = Str(<<"n","o","t"," ","r","e","a","d","y">>)

----------------------------------------------------------------------------
(* C27 *)

\* C27: the loader list and the activated-module list agree for each optional
\* service: the database module is activated iff the database configuration
\* loader is in the loader list, and the cache module iff the cache loader is,
\* whether the flags come from the environment of the process or from the
\* .env file that ConfigModule.forRoot reads after the flag snapshot was taken
C27_LoadersAndModulesAgree ==
    \A p \in Startups :
        Assembled(p) =>
            /\ PositionOf("MikroOrmModule", boot[p].modules) > 0
                  <=> PositionOf("databaseConfig", boot[p].loaders) > 0
            /\ PositionOf("RedisModule", boot[p].modules) > 0
                  <=> PositionOf("redisConfig", boot[p].loaders) > 0

----------------------------------------------------------------------------
(* C28 *)

\* the running application of startup p has logged the credentials
LoggedCredentials(p) == Len(boot[p].logged) = 2

\* the value of LOG_SENSITIVE_FIELDS in startup p
Setting(p) == boot[p].processEnv["LOG_SENSITIVE_FIELDS"]

\* LOG_SENSITIVE_FIELDS is set to a non-empty value in startup p
Overridden(p) == Setting(p) # Undefined /\ Setting(p).v # <<>>

\* the entries of a comma-separated text, from left to right
RECURSIVE EntriesOfList(_, _)
EntriesOfList(text, entry) ==
    IF text = <<>> THEN <<entry>>
    ELSE IF Head(text) = "," THEN <<entry>> \o EntriesOfList(Tail(text), <<>>)
    ELSE EntriesOfList(Tail(text), Append(entry, Head(text)))

Listed(p, field) == \E i \in 1..Len(boot[p].sensitiveFields) : boot[p].sensitiveFields[i] = field

\* the field's name contains a listed entry, letter case aside
CoveredByListed(p, field) ==
    \E i \in 1..Len(boot[p].sensitiveFields) :
        Occurs(toLowerCase(boot[p].sensitiveFields[i]), toLowerCase(field))

\* the entry logged for the credentials shows the marker for the field
ShownMasked(p, field) == Get(boot[p].logged[2].meta, field) = Str(MASKED)

\* the entry logged for the credentials shows the field's value
ShownPlain(p, field) == Get(boot[p].logged[2].meta, field) = Get(Credentials, field)

DefaultFields == {DefaultSensitiveFields[i] : i \in 1..Len(DefaultSensitiveFields)}

\* C28 as stated: with LOG_SENSITIVE_FIELDS set to a non-empty value the masked
\* fields are exactly its comma-separated entries, and a default entry that is
\* not listed is no longer masked; unset or empty, the default set applies
C28_UnlistedDefaultsUnmasked ==
    \A p \in Startups :
        LoggedCredentials(p) =>
            IF Overridden(p)
            THEN /\ boot[p].sensitiveFields = EntriesOfList(Setting(p).v, <<>>)
                 /\ \A d \in DefaultFields : ~Listed(p, d) => ShownPlain(p, d)
            ELSE /\ boot[p].sensitiveFields = DefaultSensitiveFields
                 /\ \A d \in DefaultFields : ShownMasked(p, d)

\* C28 (amended): with LOG_SENSITIVE_FIELDS set to a non-empty value the
\* configured set is exactly its comma-separated entries and replaces the
\* default set: a field is masked iff its name contains a listed entry, letter
\* case aside, so a default entry that is not listed and whose name contains no
\* listed entry is no longer masked; unset or empty, the default set applies
C28_ListedEntriesReplaceDefaults ==
    \A p \in Startups :
        LoggedCredentials(p) =>
            /\ IF Overridden(p)
               THEN /\ boot[p].sensitiveFields = EntriesOfList(Setting(p).v, <<>>)
                    /\ \A d \in DefaultFields :
                          ~Listed(p, d) /\ ~CoveredByListed(p, d) => ShownPlain(p, d)
               ELSE /\ boot[p].sensitiveFields = DefaultSensitiveFields
                    /\ \A d \in DefaultFields : ShownMasked(p, d)
            /\ \A key \in ObjectKeys(Credentials) :
                  /\ CoveredByListed(p, key) => ShownMasked(p, key)
                  /\ ~CoveredByListed(p, key) => ShownPlain(p, key)

\* LOG_SENSITIVE_FIELDS=email,apiKey: the entry logged for the credentials
\* masks email and apiKey and shows the password
C28_Witness ==
    \E p \in Startups :
        /\ LoggedCredentials(p)
        /\ Setting(p) = Str(<<"e","m","a","i","l",",","a","p","i","K","e","y">>)
        /\ boot[p].sensitiveFields = <<<<"e","m","a","i","l">>, <<"a","p","i","K","e","y">>>>
        /\ ShownMasked(p, <<"e","m","a","i","l">>) /\ ShownMasked(p, <<"a","p","i","K","e","y">>)
        /\ ShownPlain(p, <<"p","a","s","s","w","o","r","d">>) /\ ShownPlain(p, <<"t","o","k","e","n">>)

----------------------------------------------------------------------------
(* C29 *)

\* the loaders of startup p have run
Loaded(p) == boot[p].pc \in {"loaded", "created", "listening"}

\* the configuration values of the logger, jwt, database and redis loaders in
\* the ConfigService of startup p
ServiceConfigurations(p) ==
    [service \in {"logger", "jwt", "database", "redis"} |-> configGet(boot[p].config, service)]

\* the value a loader reads for a variable of the process
FromProcess(p, variable, default) ==
    IF boot[p].processEnv[variable] \in {Undefined, Str(<<>>)}
    THEN default
    ELSE boot[p].processEnv[variable].v

----------------------------------------------------------------------------
(* C30 *)

\* the url of request r without its query string
PathOf(r) == split(requests[r].url, "?")[1]

\* the interceptor let request r pass without logging: no correlation id was
\* assigned and no incoming event was written
Exempt(r) ==
    /\ Arrived(r)
    /\ requests[r].correlationId = Undefined
    /\ IncomingEvents(r) = {}

\* C30: a request is exempt from the interceptor's logging exactly when its
\* full url, query string included, contains an exclusion entry; an exempt
\* request has no correlation id, and neither has the entry the exception
\* filter writes for it
C30_ExemptByFullUrl ==
    \A r \in Requests :
        Arrived(r) =>
            LET exempt == Exempt(r)
            IN  /\ exempt <=> MatchesExclusion(r)
                /\ ~exempt =>
                      /\ requests[r].correlationId.t = "string"
                      /\ Cardinality(IncomingEvents(r)) = 1
                /\ exempt =>
                      \A i \in EntriesOf(r) : IsCaught(i) /\ CorrelationIdOf(i) = Undefined

\* a request whose path contains no exclusion entry but whose query string
\* does was exempt, threw, and the exception filter's entry for it has no
\* correlation id; another request got a correlation id
C30_Witness ==
    \E r, q \in Requests :
        /\ Finished(r) /\ Threw(r) /\ Exempt(r)
        /\ ~ContainsPath(excludePaths, PathOf(r))
        /\ ContainsPath(excludePaths, requests[r].url)
        /\ \E i \in CaughtEntries(r) : CorrelationIdOf(i) = Undefined
        /\ Finished(q) /\ ~Exempt(q) /\ requests[q].correlationId.t = "string"

====
